---- MODULE Spec2Model ----
(***************************************************************************)
(* Model of the Tenable -> Cribl collector.                                *)
(*                                                                         *)
(*   checkpoint_manager.py   FileCheckpoint (cache, dirty set, files)      *)
(*   feeds/base.py           BaseFeedProcessor (buffer, flush_events)      *)
(*   feeds/assets.py         _safe_export_with_retry, AssetFeedProcessor   *)
(*   tenable_common.py       CriblHECHandler.send_batch                    *)
(*   http_event_collector.py http_event_collector.flushBatch               *)
(*   tenable_collector.py    TenableIntegration (run_once, _process_feed)  *)
(*                                                                         *)
(* The module holds one specification per subsystem; every specification   *)
(* uses the same variables and leaves the other subsystems' variables      *)
(* unchanged:                                                              *)
(*   SpecFlush   send_event and flush_events of one processor, with the    *)
(*               store and the sink                                        *)
(*   SpecFeed    one incremental feed over several runs, with the store    *)
(*               and the sink                                              *)
(*   SpecRetry   _safe_export_with_retry driven by its consumer            *)
(*   SpecSched   run_once in its three branches, with the shutdown event   *)
(*   SpecStore   two feed workers on one FileCheckpoint, statement by      *)
(*               statement                                                 *)
(*   SpecWrite   _atomic_write, with a crash at every point                *)
(***************************************************************************)
EXTENDS Integers, Sequences, FiniteSets, TLC

(***************************************************************************)
(* Bounds of the model.                                                    *)
(***************************************************************************)
MaxTime == 3         \* the clock runs 0..MaxTime

(***************************************************************************)
(* Configuration, scaled down (tenable_collector.py:105-111).              *)
(***************************************************************************)
BatchSize == 2       \* HEC_BATCH_SIZE
MaxEvents == 2       \* MAX_EVENTS_PER_FEED
MaxIds == 2          \* CHECKPOINT_MAX_IDS
Retention == 3       \* retention_seconds
FlushInterval == 2   \* flush_interval
ExportLen == 2       \* an export has at most this many items
MaxRetries == 5      \* _safe_export_with_retry(max_retries=5)
InitialWait == 120   \* _safe_export_with_retry(initial_wait=120)
MaxWait == 600       \* min(wait_time * 1.5, 600)
Chunks == 2          \* json.dump writes a file in this many pieces
MaxWrites == 3       \* calls of _atomic_write in a behaviour

\* 'last_timestamp': None, and a dict .get() that finds nothing
None == -1
\* an item that carries no id: asset.get('id') is None
NoId == 0
\* str(None), the key is_processed looks up for an item without id
StrNone == -2

\* the ids and the modification times the upstream's items carry
Ids == {1, 2}
Upds == {1, 2}
\* the export's items; send_event's callers may also pass one without id
Items == [id : Ids, upd : Upds]
AnyItems == [id : Ids \cup {NoId}, upd : Upds]

AssetKey == "tenableio_asset"
VulnKey == "tenableio_vulnerability"
DeletedKey == "tenableio_deleted_asset"
Keys == {AssetKey, VulnKey, DeletedKey}

Max(a, b) == IF a >= b THEN a ELSE b
Min(a, b) == IF a <= b THEN a ELSE b
Range(s) == {s[i] : i \in 1..Len(s)}

VARIABLES
  \* ---- FileCheckpoint
  now,            \* int(time.time())
  cache,          \* self._cache: key -> record, only for loaded keys
  files,          \* checkpoint files: key -> content, only for existing files
  dirty_keys,     \* self._dirty_keys
  pending_count,  \* self._pending_count
  \* ---- BaseFeedProcessor / AssetFeedProcessor
  pc,             \* "idle" | "fetching" | "stopped" (the loop was left by break)
  last_timestamp, \* process(): last_timestamp
  latest_timestamp,
  event_count,
  event_buffer,   \* self._event_buffer
  buffer_ids,     \* self._buffer_ids
  \* ---- history of the feed
  lastFlush,      \* the flush_events of the last step: buffered, reported, marked
  lastPull,       \* the item of the last step and whether the dedup gate dropped it
  lostUpd,        \* least updated_at of the items this run buffered and a
                  \* flush did not deliver (None: there is none)
  ackedAt,        \* id -> time its batch was acknowledged and it was marked
                  \* (None: never, or longer ago than the retention window)
  \* ---- _safe_export_with_retry
  rpc,            \* "attempt" | "iterating" | "returned" | "raised"
  attempt,        \* the loop variable of range(max_retries + 1)
  export_started,
  wait_time,
  position,       \* items the current export has produced
  calls,          \* invocations of export_func so far
  yielded,        \* the items handed to the consumer, in order
  slept,          \* the time.sleep calls, in order
  lastError,      \* the kind of the last error the export raised
  \* ---- TenableIntegration.run_once
  mode,             \* the branch run_once takes
  inter_feed_delay,
  feeds_to_process,
  plan,             \* the feed lists run one feed at a time: one list, or
                    \* one list for each thread of the executor
  widx,             \* list -> position of its loop
  wpc,              \* list -> "loop" | "call" | "running" | "sleeping" |
                    \*         "done" | "raised"
  feed_status,      \* feed -> "pending" | "running" | "done" | "failed" |
                    \*         "skipped"
  shutdown_event,   \* _shutdown_event
  run_state,        \* "running" | "completed" | "raised"
  \* ---- FileCheckpoint._atomic_write
  disk,             \* path -> the file there
  wstep,            \* "idle" | "open" (the temp file is being written) |
                    \* "crashed"
  wdata,            \* the data of the write under way
  writes,           \* calls of _atomic_write so far
  completed,        \* the data of the last call that returned (None: none)
  orphans,          \* a crash has left a temp file behind
  \* ---- the threads of the executor on the one FileCheckpoint
  tpc,              \* thread -> "work" | "copy" | "assign" | "write" |
                    \*           "discard" | "done"
  keys_to_flush,    \* thread -> flush(): the keys still to go through
  id_tracking,      \* thread -> flush(): its filtered copy of the ids
  resume,           \* thread -> where it goes on after its flush
  marked_ids,       \* thread -> the ids it has marked processed for its key
  run_ended,        \* run_once has made its last flush_all
  \* ---- the calls made on one FileCheckpoint, one at a time
  markedAt,         \* key -> id -> the time of the last add_processed_id this
                    \* instance or the file it loads knows of (None: none)
  \* ---- DeletedAssetProcessor.process
  lastDiff,         \* the last run: the stored ids it read, the ids the
                    \* export gave, the ids it sent a deletion event for,
                    \* and the stored ids it left
  \* ---- the feed threads on the one CriblHECHandler
  hec_lock,         \* CriblHECHandler._lock: its holder (NoWorker: free)
  spc,              \* worker -> "idle" | "waiting" | "locked"
  send_calls,       \* worker -> the send_batch and flush calls it has made
  to_send,          \* worker -> the events of its send_batch still to add
  batchEvents,      \* http_event_collector.batchEvents
  currentByteLength,
  lastBody,         \* the events of the last POST body
  \* ---- http_event_collector.flushBatch
  fpc,              \* "idle" | "post" (about to call session.post) | "ended"
  hec_attempt,      \* the loop variable
  posts,            \* calls of session.post in this flushBatch
  last_status,      \* how the last session.post ended (NoStatus: none yet)
  flush_result,     \* how flushBatch ended
  error_count,
  errors_before,    \* error_count when this flushBatch began
  flushes,          \* calls of flushBatch so far
  \* ---- http_event_collector's adaptive rate limiting
  batch_delay,      \* in milliseconds
  initial_batch_delay,
  consecutive_successes,
  lastPace,         \* the last turn of flushBatch: what the collector
                    \* signalled and the delay before it
  \* ---- TenableIntegration's execution mode settings
  fully_sequential, \* FULLY_SEQUENTIAL
  smart_grouping,   \* SMART_FEED_GROUPING
  max_workers,      \* MAX_CONCURRENT_FEEDS
  \* ---- the collector process: main, run_daemon, the end of run_once
  daemon,           \* --daemon
  ppc,              \* where the process is
  runs,             \* run_once calls begun
  feeds_left,       \* feeds the current run_once has still to process
  steps,            \* what the process has flushed and logged since the current run_once began
  \* ---- FileCheckpoint over files that cannot all be read or written
  file_kind,        \* what each checkpoint file holds
  lastCall,         \* the last call on the store and what it gave
  \* ---- ProcessLock across processes
  lock_file,        \* the lock file: whether it exists and the pid written in it
  lock_age,         \* time.time() - os.path.getmtime(lock_file)
  lpc,              \* where each process is in acquire, or holding
  results,          \* what acquire() last returned to each process
  taken_over,       \* a stale lock file has been removed
  \* ---- ComplianceFeedProcessor.process
  comp_cursor,      \* the cursor stored under the compliance key (None: no cursor)
  comp_pc,          \* where process() is
  comp_last,        \* last_timestamp, read when the run begins
  scan_list,        \* scans.list() of the run
  scan_idx,         \* the scan the loop is at
  comp_count,       \* event_count
  comp_error,       \* how the last run ended
  \* ---- add_processed_ids_batch
  batches,          \* calls of add_processed_ids_batch made so far
  last_batch,       \* item_ids of the last of them
  \* ---- DeletedAssetProcessor's scan interval
  cached_full_scan, \* last_full_scan of the cached record 'deleted_asset' (None: absent)
  filed_full_scan,  \* last_full_scan of that record in its file
  prev_scan,        \* the call of process() before the last one
  last_scan         \* the last call of process()

storeVars == <<now, cache, files, dirty_keys, pending_count>>
feedVars == <<pc, last_timestamp, latest_timestamp, event_count, event_buffer,
              buffer_ids>>
histVars == <<lastFlush, lastPull, lostUpd, ackedAt>>

retryVars == <<rpc, attempt, export_started, wait_time, position, calls,
               yielded, slept, lastError>>

schedVars == <<mode, inter_feed_delay, feeds_to_process, plan, widx, wpc,
               feed_status, shutdown_event, run_state>>

writeVars == <<disk, wstep, wdata, writes, completed, orphans>>

threadVars == <<tpc, keys_to_flush, id_tracking, resume, marked_ids, run_ended>>

ckVars == <<markedAt>>
diffVars == <<lastDiff>>
sinkVars == <<hec_lock, spc, send_calls, to_send, batchEvents,
              currentByteLength, lastBody>>
hecVars == <<fpc, hec_attempt, posts, last_status, flush_result, error_count,
             errors_before, flushes>>

\* the variables of the sections added below, group by group
paceVars == <<batch_delay, initial_batch_delay, consecutive_successes,
              lastPace>>
modeVars == <<fully_sequential, smart_grouping, max_workers>>
procVars == <<daemon, ppc, runs, feeds_left, steps>>
diskVars == <<file_kind, lastCall>>
lockVars == <<lock_file, lock_age, lpc, results, taken_over>>
compVars == <<comp_cursor, comp_pc, comp_last, scan_list, scan_idx,
              comp_count, comp_error>>
batchVars == <<batches, last_batch>>
gateVars == <<cached_full_scan, filed_full_scan, prev_scan, last_scan>>
moreVars == <<paceVars, modeVars, procVars, diskVars, lockVars, compVars,
              batchVars, gateVars>>
\* what the steps on http_event_collector's adaptive rate limiting leave alone
notPaceVars == <<storeVars, feedVars, histVars, retryVars, schedVars,
                 writeVars, threadVars, ckVars, diffVars, sinkVars, hecVars,
                 modeVars, procVars, diskVars, lockVars, compVars, batchVars,
                 gateVars>>
\* what the steps on TenableIntegration's execution mode settings leave alone
notModeVars == <<storeVars, feedVars, histVars, retryVars, schedVars,
                 writeVars, threadVars, ckVars, diffVars, sinkVars, hecVars,
                 paceVars, procVars, diskVars, lockVars, compVars, batchVars,
                 gateVars>>
\* what the steps on the collector process: main, run_daemon, the end of run_once leave alone
notProcVars == <<storeVars, feedVars, histVars, retryVars, schedVars,
                 writeVars, threadVars, ckVars, diffVars, sinkVars, hecVars,
                 paceVars, modeVars, diskVars, lockVars, compVars, batchVars,
                 gateVars>>
\* what the steps on FileCheckpoint over files that cannot all be read or written leave alone
notDiskVars == <<feedVars, histVars, retryVars, schedVars, writeVars,
                 threadVars, ckVars, diffVars, sinkVars, hecVars, paceVars,
                 modeVars, procVars, lockVars, compVars, batchVars, gateVars>>
\* what the steps on ProcessLock across processes leave alone
notLockVars == <<storeVars, feedVars, histVars, retryVars, schedVars,
                 writeVars, threadVars, ckVars, diffVars, sinkVars, hecVars,
                 paceVars, modeVars, procVars, diskVars, compVars, batchVars,
                 gateVars>>
\* what the steps on ComplianceFeedProcessor.process leave alone
notCompVars == <<storeVars, feedVars, histVars, retryVars, schedVars,
                 writeVars, threadVars, ckVars, diffVars, sinkVars, hecVars,
                 paceVars, modeVars, procVars, diskVars, lockVars, batchVars,
                 gateVars>>
\* what the steps on add_processed_ids_batch leave alone
notBatchVars == <<feedVars, histVars, retryVars, schedVars, writeVars,
                  threadVars, diffVars, sinkVars, hecVars, paceVars,
                  modeVars, procVars, diskVars, lockVars, compVars, gateVars>>
\* what the steps on DeletedAssetProcessor's scan interval leave alone
notGateVars == <<feedVars, histVars, retryVars, schedVars, writeVars,
                 threadVars, ckVars, diffVars, sinkVars, hecVars, paceVars,
                 modeVars, procVars, diskVars, lockVars, compVars, batchVars>>

vars == <<storeVars, feedVars, histVars, retryVars, schedVars, writeVars,
          threadVars, ckVars, diffVars, sinkVars, hecVars, moreVars>>

\* what the feed's steps leave alone
notFeedVars == <<retryVars, schedVars, writeVars, threadVars, ckVars,
                diffVars, sinkVars, hecVars,
                moreVars>>
\* what the export wrapper's steps leave alone
notRetryVars == <<storeVars, feedVars, histVars, schedVars, writeVars,
                 threadVars, ckVars, diffVars,
                   sinkVars, hecVars,
                moreVars>>
\* what run_once's steps leave alone
notSchedVars == <<storeVars, feedVars, histVars, retryVars, writeVars,
                 threadVars, ckVars, diffVars,
                   sinkVars, hecVars,
                moreVars>>
\* what _atomic_write's steps leave alone
notWriteVars == <<storeVars, feedVars, histVars, retryVars, schedVars,
                 threadVars, ckVars, diffVars,
                   sinkVars, hecVars,
                moreVars>>
\* what the threads' steps on the store leave alone
notThreadVars == <<feedVars, histVars, retryVars, schedVars, writeVars,
                   ckVars, diffVars,
                   sinkVars, hecVars,
                moreVars>>
\* what the calls on the store leave alone
notCkVars == <<feedVars, histVars, retryVars, schedVars, writeVars,
               threadVars, diffVars, sinkVars, hecVars,
                moreVars>>
\* what a deletion scan leaves alone
notDiffVars == <<feedVars, histVars, retryVars, schedVars, writeVars,
                 threadVars, ckVars, sinkVars, hecVars,
                moreVars>>
\* what the threads' steps on the sink leave alone
notSinkVars == <<storeVars, feedVars, histVars, retryVars, schedVars,
                 writeVars, threadVars, ckVars, diffVars, hecVars,
                moreVars>>
\* what flushBatch's steps leave alone
notHecVars == <<storeVars, feedVars, histVars, retryVars, schedVars,
                writeVars, threadVars, ckVars, diffVars, hec_lock, spc,
                send_calls, to_send, lastBody,
                moreVars>>

(***************************************************************************)
(* FileCheckpoint: the record of one key and the pure steps on it.         *)
(* id_tracking is a dict: a sequence of (id, ts) in insertion order, each  *)
(* id once.                                                                *)
(***************************************************************************)
\* _load_checkpoint: the default record of a key
DefaultData == [id_tracking |-> <<>>, last_timestamp |-> None]

NotLoaded == [loaded |-> FALSE, data |-> DefaultData]
NoFile == [exists |-> FALSE, data |-> DefaultData]

\* str(item_id)
StrId(id) == IF id = NoId THEN StrNone ELSE id

\* id_tracking[str_id], None when the key is absent
TsOf(idt, sid) ==
  IF \E i \in 1..Len(idt) : idt[i].id = sid
  THEN LET i == CHOOSE j \in 1..Len(idt) : idt[j].id = sid IN idt[i].ts
  ELSE None

IdsOf(idt) == {idt[i].id : i \in 1..Len(idt)}

\* id_tracking[str_id] = ts: an id already there keeps its place
SetTs(idt, sid, ts) ==
  IF sid \in IdsOf(idt)
  THEN [i \in 1..Len(idt) |-> IF idt[i].id = sid THEN [id |-> sid, ts |-> ts] ELSE idt[i]]
  ELSE Append(idt, [id |-> sid, ts |-> ts])

\* {id_key: ts for id_key, ts in id_tracking.items() if ts > cutoff_time}
RemoveExpired(idt, t) ==
  LET Live(e) == e.ts > t - Retention IN SelectSeq(idt, Live)

\* one step of sorted(..., key=ts, reverse=True): a stable insertion
InsertDesc(sorted, e) ==
  LET n == Cardinality({i \in 1..Len(sorted) : sorted[i].ts >= e.ts})
  IN SubSeq(sorted, 1, n) \o <<e>> \o SubSeq(sorted, n + 1, Len(sorted))

RECURSIVE SortedDesc(_)
SortedDesc(idt) ==
  IF idt = <<>> THEN <<>>
  ELSE InsertDesc(SortedDesc(SubSeq(idt, 1, Len(idt) - 1)), idt[Len(idt)])

\* a trim that keeps the entries inserted first
KeepFirstInserted(idt) ==
  IF Len(idt) > MaxIds THEN SubSeq(idt, 1, MaxIds) ELSE idt

\* flush: enforce max size (keep most recent)
EnforceMaxIds(idt) ==
  IF Len(idt) > MaxIds THEN SubSeq(SortedDesc(idt), 1, MaxIds) ELSE idt

\* what flush writes for a record at time t
Cleaned(data, t) ==
  [data EXCEPT !.id_tracking = EnforceMaxIds(RemoveExpired(data.id_tracking, t))]

(***************************************************************************)
(* The store as a value, so that one handler can make several calls.       *)
(***************************************************************************)
Store == [cache |-> cache, files |-> files, dirty |-> dirty_keys,
          pending |-> pending_count]

SetStore(st) ==
  /\ cache' = st.cache
  /\ files' = st.files
  /\ dirty_keys' = st.dirty
  /\ pending_count' = st.pending

\* _load_checkpoint(key)
LoadCheckpoint(st, k) ==
  IF st.cache[k].loaded THEN st
  ELSE [st EXCEPT
          !.cache[k] = [loaded |-> TRUE,
                        data |-> IF st.files[k].exists THEN st.files[k].data
                                 ELSE DefaultData],
          !.pending[k] = 0]

\* flush: the body of the loop for one key, the write succeeding
FlushKey(st, k, t) ==
  IF ~st.cache[k].loaded THEN st
  ELSE LET data == Cleaned(st.cache[k].data, t)
       IN [st EXCEPT !.cache[k].data = data,
                     !.files[k] = [exists |-> TRUE, data |-> data],
                     !.dirty = @ \ {k},
                     !.pending[k] = 0]

RECURSIVE FlushKeys(_, _, _)
FlushKeys(st, ks, t) ==
  IF ks = {} THEN st
  ELSE LET k == CHOOSE x \in ks : TRUE
       IN FlushKeys(FlushKey(st, k, t), ks \ {k}, t)

\* flush(key)
Flush(st, k, t) == FlushKey(st, k, t)

\* flush_all(): flush() over list(self._dirty_keys)
FlushAll(st, t) == FlushKeys(st, st.dirty, t)

\* get_last_timestamp(key), after its _load_checkpoint
GetLastTimestamp(st, k) == LoadCheckpoint(st, k).cache[k].data.last_timestamp

\* a set_last_timestamp that leaves the write to the next flush
SetLastTimestampCached(st, k, ts, t) ==
  LET s1 == LoadCheckpoint(st, k)
  IN [s1 EXCEPT !.cache[k].data.last_timestamp = ts,
                !.dirty = @ \cup {k}]

\* set_last_timestamp(key, timestamp)
SetLastTimestamp(st, k, ts, t) ==
  LET s1 == LoadCheckpoint(st, k)
      s2 == [s1 EXCEPT !.cache[k].data.last_timestamp = ts,
                       !.dirty = @ \cup {k}]
  IN Flush(s2, k, t)

\* add_processed_id(key, item_id) up to its test of the pending count
AddToCache(st, k, id, t) ==
  [LoadCheckpoint(st, k) EXCEPT
     !.cache[k].data.id_tracking = SetTs(@, StrId(id), t),
     !.dirty = @ \cup {k},
     !.pending[k] = @ + 1]

\* an add_processed_id that flushes one id late
AddFlushesLate(st, k, id, t) ==
  LET s2 == AddToCache(st, k, id, t)
  IN IF s2.pending[k] > FlushInterval THEN Flush(s2, k, t) ELSE s2

\* add_processed_id(key, item_id)
AddProcessedId(st, k, id, t) ==
  LET s2 == AddToCache(st, k, id, t)
  IN IF s2.pending[k] >= FlushInterval THEN Flush(s2, k, t) ELSE s2

RECURSIVE SetAllTs(_, _, _)
\* for item_id in item_ids: id_tracking[str(item_id)] = current_time
SetAllTs(idt, ids, t) ==
  IF ids = <<>> THEN idt
  ELSE SetAllTs(SetTs(idt, StrId(Head(ids)), t), Tail(ids), t)

\* add_processed_ids_batch(key, item_ids)
AddProcessedIdsBatch(st, k, ids, t) ==
  IF ids = <<>> THEN st
  ELSE LET s1 == LoadCheckpoint(st, k)
           s2 == [s1 EXCEPT
                    !.cache[k].data.id_tracking = SetAllTs(@, ids, t),
                    !.dirty = @ \cup {k},
                    !.pending[k] = @ + Len(ids)]
       IN Flush(s2, k, t)

\* clear_checkpoint(key): the file is removed; the cached record, the dirty
\* mark and the pending count are not touched
ClearCheckpoint(st, k) == [st EXCEPT !.files[k] = NoFile]

\* an is_processed that looks at the index only
IsIndexed(st, k, id, t) ==
  StrId(id) \in IdsOf(LoadCheckpoint(st, k).cache[k].data.id_tracking)

\* a dedup gate that remembers nothing
NeverProcessed(st, k, id, t) == FALSE

\* is_processed(key, item_id), after its _load_checkpoint
IsProcessed(st, k, id, t) ==
  LET idt == LoadCheckpoint(st, k).cache[k].data.id_tracking
      ts == TsOf(idt, StrId(id))
  IN /\ StrId(id) \in IdsOf(idt)
     /\ ts > t - Retention

\* get_processed_ids(key), after its _load_checkpoint
GetProcessedIds(st, k, t) ==
  LET idt == LoadCheckpoint(st, k).cache[k].data.id_tracking
  IN {idt[i].id : i \in {j \in 1..Len(idt) : idt[j].ts > t - Retention}}

RECURSIVE MarkAll(_, _, _, _)
\* for item_id in ids: self.mark_processed(item_id)
MarkAll(st, k, ids, t) ==
  IF ids = <<>> THEN st
  ELSE MarkAll(AddProcessedId(st, k, Head(ids), t), k, Tail(ids), t)

(***************************************************************************)
(* CriblHECHandler.send_batch over http_event_collector.                   *)
(*                                                                         *)
(* send_batch hands each event to sendEvent and counts the calls that did  *)
(* not raise, then calls flushBatch once and returns the count whatever    *)
(* flushBatch did.  `added' is the set of positions whose sendEvent did    *)
(* not raise; `post' is how flushBatch ended.                              *)
(***************************************************************************)
\* how flushBatch can end for a batch (nothing is posted for an empty one)
PostOutcomes(added) ==
  IF added = {} THEN {"none"}
  ELSE {"ok",          \* status 200
        "rejected",    \* non-retryable status
        "exhausted",   \* max_retries + 1 attempts failed: returns False
        "exception"}   \* unexpected exception, raised by flushBatch

\* send_batch's return value
SendBatch(events, added, post) == Cardinality(added)

\* the positions of the buffer the collector acknowledged
Delivered(added, post) == IF post = "ok" THEN added ELSE {}

(***************************************************************************)
(* BaseFeedProcessor.send_event and flush_events                           *)
(***************************************************************************)
\* send_event: self._buffer_ids after the append
BufferIds(ids, it) == IF it.id # NoId THEN Append(ids, it.id) ELSE ids

\* the ids flush_events passes to mark_processed, for success_count of batch_size
IdsToMark(ids, batch_size, success_count) ==
  IF success_count = batch_size THEN ids
  ELSE IF success_count > 0
       THEN SubSeq(ids, 1, Min(success_count, Len(ids)))
       ELSE <<>>

\* a flush_events that keeps a batch of which nothing was sent
KeepFailedBatch(buffer, batch_size, success_count, raised) ==
  IF raised \/ success_count = 0 THEN buffer ELSE <<>>

\* _event_buffer, and _buffer_ids, when flush_events returns: each of its
\* branches and its except clause assigns []
BufferAfterFlush(buffer, batch_size, success_count, raised) ==
  IF raised THEN <<>>
  ELSE IF success_count = batch_size THEN <<>>
  ELSE IF success_count > 0 THEN <<>>
  ELSE <<>>

\* flush_events' return value
FlushReturns(batch_size, success_count) == success_count = batch_size

\* flush_events on a non-empty buffer, the sink having taken `added' and
\* ended its POST by `post': the store afterwards, the value returned and
\* the ids handed to mark_processed
FlushEvents(st, buf, ids, added, post) ==
  LET n == SendBatch(buf, added, post)
      toMark == IdsToMark(ids, Len(buf), n)
  IN [store |-> MarkAll(st, AssetKey, toMark, now),
      returns |-> FlushReturns(Len(buf), n),
      marked |-> Range(toMark)]

NoFlush == [events |-> <<>>, success |-> 0, post |-> "none", marked |-> {}]
NoAck == [id \in Ids |-> None]
NoPull == [id |-> NoId, gate |-> "none"]

\* min over a set of times and an earlier minimum (None: nothing yet)
MinUpd(old, S) ==
  LET T == S \cup (IF old = None THEN {} ELSE {old})
  IN IF T = {} THEN None ELSE CHOOSE x \in T : \A y \in T : x <= y

\* the history one flush leaves: what it marked and what it did not deliver
FlushHistory(buf, added, post, marked) ==
  LET got == Delivered(added, post)
      ackedIds == {buf[i].id : i \in got} \cap marked
  IN /\ lastFlush' = [events |-> [i \in 1..Len(buf) |-> buf[i].id],
                      success |-> SendBatch(buf, added, post),
                      post |-> post, marked |-> marked]
     /\ lostUpd' = MinUpd(lostUpd, {buf[i].upd : i \in (1..Len(buf)) \ got})
     /\ ackedAt' = [id \in Ids |-> IF id \in ackedIds THEN now ELSE ackedAt[id]]

InitStore ==
  /\ now = 0
  /\ cache = [k \in Keys |-> NotLoaded]
  /\ files = [k \in Keys |-> NoFile]
  /\ dirty_keys = {}
  /\ pending_count = [k \in Keys |-> 0]

InitFeed ==
  /\ pc = "idle"
  /\ last_timestamp = None
  /\ latest_timestamp = 0
  /\ event_count = 0
  /\ event_buffer = <<>>
  /\ buffer_ids = <<>>
  /\ lastFlush = NoFlush
  /\ lastPull = NoPull
  /\ lostUpd = None
  /\ ackedAt = NoAck

(***************************************************************************)
(* TenableIntegration.run_once, _process_group_sequentially, _process_feed *)
(***************************************************************************)
\* feed_groups, with fewer feeds in each group
FeedGroups ==
  << <<"tenableio_asset", "tenableio_asset_self_scan">>,
     <<"tenableio_vulnerability", "tenableio_fixed_vulnerability">>,
     <<"tenableio_plugin", "tenableio_compliance">> >>

\* all_feeds
AllFeeds == FeedGroups[1] \o FeedGroups[2] \o FeedGroups[3]
Feeds == Range(AllFeeds)

\* the group of a feed
GroupOf(f) == CHOOSE g \in 1..Len(FeedGroups) : f \in Range(FeedGroups[g])

\* [f for f in seq if f in S]
Only(seq, S) == SelectSeq(seq, LAMBDA f : f \in S)

\* groups_to_run without the last group that has a selected feed
GroupsButLast(feeds) ==
  LET gs == SelectSeq([g \in 1..Len(FeedGroups) |->
                         Only(FeedGroups[g], Range(feeds))],
                      LAMBDA fs : fs # <<>>)
  IN SubSeq(gs, 1, Len(gs) - 1)

\* groups_to_run: the feeds of each group that has a selected feed
GroupsToRun(feeds) ==
  SelectSeq([g \in 1..Len(FeedGroups) |-> Only(FeedGroups[g], Range(feeds))],
            LAMBDA fs : fs # <<>>)

\* the branch of run_once
ModeOf(sequential, grouping, feeds) ==
  IF sequential THEN "fully_sequential"
  ELSE IF grouping /\ Len(GroupsToRun(feeds)) > 1 THEN "smart"
  ELSE "sequential"

\* a scheduler with one thread for each feed
PlanPerFeed(m, feeds) == [i \in 1..Len(feeds) |-> <<feeds[i]>>]

\* the lists run_once goes through one feed at a time: all the feeds in the
\* main thread, or each group in a thread of the executor
PlanOf(m, feeds) ==
  IF m = "smart" THEN GroupsToRun(feeds) ELSE <<feeds>>

\* whether the branch sleeps between two feeds of a list
Delays(m) == m \in {"fully_sequential", "smart"}

\* the event is never seen set
NeverSet(ev) == FALSE

\* _shutdown_event.is_set()
IsSet(ev) == ev

\* where a feed's error can come from
Failures == {"construction", "process", "flush_all"}

\* an error escapes _process_feed
CaughtNone(kind) == FALSE

\* _process_feed's `except Exception' around construction, process() and
\* flush_all
Caught(kind) == kind \in Failures

\* no run_once is under way
InitIdleSched ==
  /\ mode = "sequential"
  /\ inter_feed_delay = 0
  /\ feeds_to_process = <<>>
  /\ plan = <<>>
  /\ widx = <<>>
  /\ wpc = <<>>
  /\ feed_status = [f \in Feeds |-> "pending"]
  /\ shutdown_event = FALSE
  /\ run_state = "completed"

\* run_once(data_types) up to the branch, for a configuration and a selection
InitSched ==
  /\ \E S \in (SUBSET Feeds) \ {{}} : feeds_to_process = Only(AllFeeds, S)
  /\ \E fs, sg \in BOOLEAN : mode = ModeOf(fs, sg, feeds_to_process)
  /\ inter_feed_delay \in {0, 1}
  /\ plan = PlanOf(mode, feeds_to_process)
  /\ widx = [w \in DOMAIN plan |-> 1]
  /\ wpc = [w \in DOMAIN plan |-> "loop"]
  /\ feed_status = [f \in Feeds |-> "pending"]
  /\ shutdown_event = FALSE
  /\ run_state = "running"

\* the position and place of list w after a feed of it returned
AfterFeed(w) ==
  IF widx[w] < Len(plan[w]) /\ Delays(mode) /\ inter_feed_delay > 0
  THEN /\ wpc' = [wpc EXCEPT ![w] = "sleeping"]
       /\ widx' = widx
  ELSE /\ wpc' = [wpc EXCEPT ![w] = "loop"]
       /\ widx' = [widx EXCEPT ![w] = @ + 1]

\* the top of a loop over feeds: the list is exhausted, or the shutdown
\* check breaks, or the feed is handed to _process_feed
LoopTop(w) ==
  /\ wpc[w] = "loop"
  /\ wpc' = [wpc EXCEPT ![w] =
               IF widx[w] > Len(plan[w]) \/ IsSet(shutdown_event)
               THEN "done" ELSE "call"]
  /\ UNCHANGED <<mode, inter_feed_delay, feeds_to_process, plan, widx,
                 feed_status, shutdown_event, run_state>>
  /\ UNCHANGED notSchedVars

\* _process_feed: the shutdown check returns 0, or the feed starts
EnterFeed(w) ==
  /\ wpc[w] = "call"
  /\ LET f == plan[w][widx[w]]
     IN IF IsSet(shutdown_event)
        THEN /\ feed_status' = [feed_status EXCEPT ![f] = "skipped"]
             /\ AfterFeed(w)
        ELSE /\ feed_status' = [feed_status EXCEPT ![f] = "running"]
             /\ wpc' = [wpc EXCEPT ![w] = "running"]
             /\ widx' = widx
  /\ UNCHANGED <<mode, inter_feed_delay, feeds_to_process, plan,
                 shutdown_event, run_state>>
  /\ UNCHANGED notSchedVars

\* _process_feed: process() and flush_all have returned
FeedReturns(w) ==
  /\ wpc[w] = "running"
  /\ feed_status' = [feed_status EXCEPT ![plan[w][widx[w]]] = "done"]
  /\ AfterFeed(w)
  /\ UNCHANGED <<mode, inter_feed_delay, feeds_to_process, plan,
                 shutdown_event, run_state>>
  /\ UNCHANGED notSchedVars

\* _process_feed: the construction, process() or flush_all raises
FeedFails(w) ==
  /\ wpc[w] = "running"
  /\ feed_status' = [feed_status EXCEPT ![plan[w][widx[w]]] = "failed"]
  /\ \E kind \in Failures :
       IF Caught(kind)
       THEN AfterFeed(w)
       ELSE /\ wpc' = [wpc EXCEPT ![w] = "raised"]
            /\ widx' = widx
  /\ UNCHANGED <<mode, inter_feed_delay, feeds_to_process, plan,
                 shutdown_event, run_state>>
  /\ UNCHANGED notSchedVars

\* time.sleep(self.inter_feed_delay) returns
WakeUp(w) ==
  /\ wpc[w] = "sleeping"
  /\ wpc' = [wpc EXCEPT ![w] = "loop"]
  /\ widx' = [widx EXCEPT ![w] = @ + 1]
  /\ UNCHANGED <<mode, inter_feed_delay, feeds_to_process, plan, feed_status,
                 shutdown_event, run_state>>
  /\ UNCHANGED notSchedVars

\* _signal_handler
Signal ==
  /\ ~shutdown_event
  /\ shutdown_event' = TRUE
  /\ UNCHANGED <<mode, inter_feed_delay, feeds_to_process, plan, widx, wpc,
                 feed_status, run_state>>
  /\ UNCHANGED notSchedVars

\* the loops are over: run_once returns, or raises what escaped a loop of
\* the main thread (what a group's thread raises is caught and logged)
RunEnds ==
  /\ run_state = "running"
  /\ \A w \in DOMAIN plan : wpc[w] \in {"done", "raised"}
  /\ run_state' = IF mode # "smart" /\ \E w \in DOMAIN plan : wpc[w] = "raised"
                  THEN "raised" ELSE "completed"
  /\ UNCHANGED <<mode, inter_feed_delay, feeds_to_process, plan, widx, wpc,
                 feed_status, shutdown_event>>
  /\ UNCHANGED notSchedVars

(***************************************************************************)
(* _safe_export_with_retry: the generator around one export                *)
(***************************************************************************)
\* what str(e).lower() of an export's error can hold
ErrorKinds == {"429", "duplicate export", "export already running", "other"}
NoError == "none"

\* a wrapper that takes every error for a busy signal
AnyErrorIsBusy(kind) == TRUE

\* '429' in error_msg or 'duplicate export' in error_msg or ...
IsBusySignal(kind) ==
  kind \in {"429", "duplicate export", "export already running"}

\* a wrapper that retries a busy signal whatever the export has produced
MayRetryMidExport(started, kind, att) ==
  IsBusySignal(kind) /\ att < MaxRetries

\* a wrapper that never gives up on a busy signal
MayRetryForever(started, kind, att) ==
  ~started /\ IsBusySignal(kind)

\* the except block's way to `continue'
MayRetry(started, kind, att) ==
  /\ ~started
  /\ IsBusySignal(kind)
  /\ att < MaxRetries

\* min(wait_time * 1.5, 600)
NextWait(w) == Min((w * 3) \div 2, MaxWait)

InitRetry ==
  /\ rpc = "attempt"
  /\ attempt = 0
  /\ export_started = FALSE
  /\ wait_time = InitialWait
  /\ position = 0
  /\ calls = 0
  /\ yielded = <<>>
  /\ slept = <<>>
  /\ lastError = NoError

\* the top of the for loop: export_started = False, export_func() is invoked
InvokeExport ==
  /\ rpc = "attempt"
  /\ rpc' = "iterating"
  /\ export_started' = FALSE
  /\ position' = 0
  /\ calls' = calls + 1
  /\ UNCHANGED <<attempt, wait_time, yielded, slept, lastError>>
  /\ UNCHANGED notRetryVars

\* the export produces its next item: export_started = True; yield item
YieldItem ==
  /\ rpc = "iterating"
  /\ position < ExportLen
  /\ position' = position + 1
  /\ export_started' = TRUE
  /\ yielded' = Append(yielded, position')
  /\ UNCHANGED <<rpc, attempt, wait_time, calls, slept, lastError>>
  /\ UNCHANGED notRetryVars

\* the export is exhausted: return
ExportCompletes ==
  /\ rpc = "iterating"
  /\ rpc' = "returned"
  /\ UNCHANGED <<attempt, export_started, wait_time, position, calls, yielded,
                 slept, lastError>>
  /\ UNCHANGED notRetryVars

\* the export raises and the except block sleeps and continues the loop
RetryExport ==
  /\ rpc = "iterating"
  /\ \E kind \in ErrorKinds :
       /\ MayRetry(export_started, kind, attempt)
       /\ lastError' = kind
  /\ slept' = Append(slept, wait_time)
  /\ wait_time' = NextWait(wait_time)
  /\ attempt' = attempt + 1
  /\ rpc' = "attempt"
  /\ UNCHANGED <<export_started, position, calls, yielded>>
  /\ UNCHANGED notRetryVars

\* the export raises and the except block raises again
PropagateError ==
  /\ rpc = "iterating"
  /\ \E kind \in ErrorKinds :
       /\ ~MayRetry(export_started, kind, attempt)
       /\ lastError' = kind
  /\ rpc' = "raised"
  /\ UNCHANGED <<attempt, export_started, wait_time, position, calls, yielded,
                 slept>>
  /\ UNCHANGED notRetryVars

(***************************************************************************)
(* SpecFlush: a processor's callers use send_event (after the dedup gate)  *)
(* and flush_events.                                                       *)
(***************************************************************************)
\* send_event(event_data, item_id) below the batch size: buffered
SendEvent ==
  /\ \E it \in AnyItems :
       /\ ~IsProcessed(Store, AssetKey, it.id, now)
       /\ Len(event_buffer) + 1 < BatchSize
       /\ event_buffer' = Append(event_buffer, it)
       /\ buffer_ids' = BufferIds(buffer_ids, it)
  /\ lastFlush' = NoFlush
  /\ SetStore(LoadCheckpoint(Store, AssetKey))
  /\ UNCHANGED <<now, pc, last_timestamp, latest_timestamp, event_count,
                 lastPull, lostUpd, ackedAt>>
  /\ UNCHANGED notFeedVars

\* send_event reaching the batch size: flush_events
SendEventFlush ==
  /\ \E it \in AnyItems :
       /\ ~IsProcessed(Store, AssetKey, it.id, now)
       /\ Len(event_buffer) + 1 >= BatchSize
       /\ LET buf == Append(event_buffer, it)
              ids == BufferIds(buffer_ids, it)
          IN \E added \in SUBSET (1..Len(buf)) :
               LET r == FlushEvents(Store, buf, ids, added, "none")
                   n == SendBatch(buf, added, "none")
               IN \E post \in PostOutcomes(added) :
                    /\ SetStore(r.store)
                    /\ FlushHistory(buf, added, post, r.marked)
                    /\ event_buffer' = BufferAfterFlush(buf, Len(buf), n, FALSE)
                    /\ buffer_ids' = BufferAfterFlush(ids, Len(buf), n, FALSE)
  /\ UNCHANGED <<now, pc, last_timestamp, latest_timestamp, event_count, lastPull>>
  /\ UNCHANGED notFeedVars

\* flush_events() called by the processor
CallFlushEvents ==
  /\ event_buffer # <<>>
  /\ \E added \in SUBSET (1..Len(event_buffer)) :
       LET r == FlushEvents(Store, event_buffer, buffer_ids, added, "none")
           n == SendBatch(event_buffer, added, "none")
       IN \E post \in PostOutcomes(added) :
            /\ SetStore(r.store)
            /\ FlushHistory(event_buffer, added, post, r.marked)
            /\ event_buffer' =
                 BufferAfterFlush(event_buffer, Len(event_buffer), n, FALSE)
            /\ buffer_ids' =
                 BufferAfterFlush(buffer_ids, Len(event_buffer), n, FALSE)
  /\ UNCHANGED <<now, pc, last_timestamp, latest_timestamp, event_count, lastPull>>
  /\ UNCHANGED notFeedVars

\* flush_events() whose send_batch raises: the except clause
CallFlushEventsRaises ==
  /\ event_buffer # <<>>
  /\ FlushHistory(event_buffer, {}, "raised", {})
  /\ event_buffer' = BufferAfterFlush(event_buffer, Len(event_buffer), 0, TRUE)
  /\ buffer_ids' = BufferAfterFlush(buffer_ids, Len(event_buffer), 0, TRUE)
  /\ UNCHANGED <<now, cache, files, dirty_keys, pending_count, pc,
                 last_timestamp, latest_timestamp, event_count, lastPull>>
  /\ UNCHANGED notFeedVars

(***************************************************************************)
(* SpecFeed: AssetFeedProcessor.process under _process_feed, one run after *)
(* the other.                                                              *)
(***************************************************************************)
\* the export's since filter: export_kwargs['updated_at'] = int(last_timestamp)
SinceAdmits(since, upd) == since = None \/ since <= 0 \/ upd >= since

\* should_stop(count)
ShouldStop(count) == MaxEvents > 0 /\ count >= MaxEvents

\* last_timestamp or 0
OrZero(ts) == IF ts = None THEN 0 ELSE ts

\* an acknowledged id the store is due to remember: inside the retention
\* window (the feed's ids are no more than the id cap)
Remembered(id) ==
  /\ id # NoId
  /\ ackedAt[id] # None
  /\ now - ackedAt[id] < Retention

\* process(): log_start .. the export is requested
StartRun ==
  /\ pc = "idle"
  /\ LET st == LoadCheckpoint(Store, AssetKey)
         last == GetLastTimestamp(Store, AssetKey)
     IN /\ SetStore(st)
        /\ last_timestamp' = last
        /\ latest_timestamp' = OrZero(last)
  /\ pc' = "fetching"
  /\ event_count' = 0
  /\ lastFlush' = NoFlush
  /\ lastPull' = NoPull
  /\ lostUpd' = None
  /\ UNCHANGED <<now, event_buffer, buffer_ids, ackedAt>>
  /\ UNCHANGED notFeedVars

\* one turn of the loop over the export: the dedup gate drops the item
PullDuplicate ==
  /\ pc = "fetching"
  /\ \E it \in Items :
       /\ SinceAdmits(last_timestamp, it.upd)
       /\ IsProcessed(Store, AssetKey, it.id, now)
       /\ lastPull' = [id |-> it.id, gate |-> "dropped"]
  /\ lastFlush' = NoFlush
  /\ UNCHANGED <<storeVars, feedVars, lostUpd, ackedAt>>
  /\ UNCHANGED notFeedVars

\* one turn of the loop: the item passes the gate, send_event buffers it
PullItem ==
  /\ pc = "fetching"
  /\ \E it \in Items :
       /\ SinceAdmits(last_timestamp, it.upd)
       /\ ~IsProcessed(Store, AssetKey, it.id, now)
       /\ Len(event_buffer) + 1 < BatchSize
       /\ latest_timestamp' = Max(latest_timestamp, it.upd)
       /\ lastPull' = [id |-> it.id,
                       gate |-> IF Remembered(it.id) THEN "redelivered"
                                ELSE "buffered"]
       /\ event_buffer' = Append(event_buffer, it)
       /\ buffer_ids' = BufferIds(buffer_ids, it)
  /\ event_count' = event_count + 1
  /\ pc' = IF ShouldStop(event_count') THEN "stopped" ELSE "fetching"
  /\ lastFlush' = NoFlush
  /\ UNCHANGED <<storeVars, last_timestamp, lostUpd, ackedAt>>
  /\ UNCHANGED notFeedVars

\* one turn of the loop: the item passes the gate and fills the batch,
\* send_event returns flush_events()
PullItemFlush ==
  /\ pc = "fetching"
  /\ \E it \in Items :
       /\ SinceAdmits(last_timestamp, it.upd)
       /\ ~IsProcessed(Store, AssetKey, it.id, now)
       /\ Len(event_buffer) + 1 >= BatchSize
       /\ latest_timestamp' = Max(latest_timestamp, it.upd)
       /\ lastPull' = [id |-> it.id,
                       gate |-> IF Remembered(it.id) THEN "redelivered"
                                ELSE "buffered"]
       /\ LET buf == Append(event_buffer, it)
              ids == BufferIds(buffer_ids, it)
          IN \E added \in SUBSET (1..Len(buf)) :
               LET r == FlushEvents(Store, buf, ids, added, "none")
               IN /\ SetStore(r.store)
                  /\ event_count' = IF r.returns THEN event_count + 1
                                    ELSE event_count
                  /\ \E post \in PostOutcomes(added) :
                       FlushHistory(buf, added, post, r.marked)
  /\ event_buffer' = <<>>
  /\ buffer_ids' = <<>>
  /\ pc' = IF ShouldStop(event_count') THEN "stopped" ELSE "fetching"
  /\ UNCHANGED <<now, last_timestamp>>
  /\ UNCHANGED notFeedVars

\* the cursor update that ends process(), then _process_feed's flush_all
EndOfRun(st) ==
  LET s1 == IF latest_timestamp > OrZero(last_timestamp)
            THEN SetLastTimestamp(st, AssetKey, latest_timestamp, now)
            ELSE st
  IN FlushAll(s1, now)

\* the export is exhausted or the loop was left, nothing is buffered: the
\* cursor, then flush_all
FinishRun ==
  /\ pc \in {"fetching", "stopped"}
  /\ event_buffer = <<>>
  /\ SetStore(EndOfRun(Store))
  /\ pc' = "idle"
  /\ lastFlush' = NoFlush
  /\ lastPull' = NoPull
  /\ last_timestamp' = None
  /\ latest_timestamp' = 0
  /\ UNCHANGED <<now, event_count, event_buffer, buffer_ids, lostUpd, ackedAt>>
  /\ UNCHANGED notFeedVars

\* the export is exhausted or the loop was left: the last flush_events, the
\* cursor, then flush_all
FinishRunFlush ==
  /\ pc \in {"fetching", "stopped"}
  /\ event_buffer # <<>>
  /\ \E added \in SUBSET (1..Len(event_buffer)) :
       LET r == FlushEvents(Store, event_buffer, buffer_ids, added, "none")
       IN /\ SetStore(EndOfRun(r.store))
          /\ \E post \in PostOutcomes(added) :
               FlushHistory(event_buffer, added, post, r.marked)
  /\ event_buffer' = <<>>
  /\ buffer_ids' = <<>>
  /\ pc' = "idle"
  /\ lastPull' = NoPull
  /\ last_timestamp' = None
  /\ latest_timestamp' = 0
  /\ UNCHANGED <<now, event_count>>
  /\ UNCHANGED notFeedVars

\* the export raises: process() logs it and returns, then flush_all
ExportError ==
  /\ pc = "fetching"
  /\ SetStore(FlushAll(Store, now))
  /\ pc' = "idle"
  /\ lastFlush' = NoFlush
  /\ lastPull' = NoPull
  /\ last_timestamp' = None
  /\ latest_timestamp' = 0
  /\ UNCHANGED <<now, event_count, event_buffer, buffer_ids, lostUpd, ackedAt>>
  /\ UNCHANGED notFeedVars

\* time passes between two runs
Tick ==
  /\ pc = "idle"
  /\ now < MaxTime
  /\ now' = now + 1
  /\ lastFlush' = NoFlush
  /\ lostUpd' = None
  /\ ackedAt' = [id \in Ids |-> IF ackedAt[id] # None /\ now' - ackedAt[id] >= Retention
                                 THEN None ELSE ackedAt[id]]
  /\ UNCHANGED <<cache, files, dirty_keys, pending_count, feedVars, lastPull>>
  /\ UNCHANGED notFeedVars

\* the process ends after a run and a new one starts: an empty cache, new
\* processors, the files as they are
Restart ==
  /\ pc = "idle"
  /\ dirty_keys = {}
  /\ cache' = [k \in Keys |-> NotLoaded]
  /\ pending_count' = [k \in Keys |-> 0]
  /\ event_buffer' = <<>>
  /\ buffer_ids' = <<>>
  /\ lastFlush' = NoFlush
  /\ lostUpd' = None
  /\ event_count' = 0
  /\ UNCHANGED <<now, files, dirty_keys, pc, last_timestamp, latest_timestamp,
                 lastPull, ackedAt>>
  /\ UNCHANGED notFeedVars

(***************************************************************************)
(* FileCheckpoint._atomic_write, statement by statement, with the process  *)
(* killed at any point.  A file is what has been written of some data;     *)
(* it is complete when all Chunks pieces are there.  os.rename within one  *)
(* directory replaces the target in one step.                              *)
(***************************************************************************)
\* the checkpoint data a flush can hand to _atomic_write
DataValues == {1, 2}

Paths == {"filepath", "temp_path"}
Absent == [exists |-> FALSE, data |-> None, len |-> 0]
\* open(path, 'w'): an empty file
Opened(d) == [exists |-> TRUE, data |-> d, len |-> 0]
IsComplete(file) == file.exists /\ file.len = Chunks

\* a write that opens the checkpoint file itself
WriteInPlace(filepath, temp_path) == filepath

\* the path json.dump writes to: the file mkstemp made in the target's
\* directory
DumpPath(filepath, temp_path) == temp_path

InitWrite ==
  /\ disk = [p \in Paths |-> Absent]
  /\ wstep = "idle"
  /\ wdata = None
  /\ writes = 0
  /\ completed = None
  /\ orphans = FALSE

\* _atomic_write(filepath, data): mkstemp and os.fdopen(fd, 'w')
OpenTemp ==
  /\ wstep = "idle"
  /\ writes < MaxWrites
  /\ \E d \in DataValues :
       /\ wdata' = d
       /\ disk' = [disk EXCEPT ![DumpPath("filepath", "temp_path")] = Opened(d)]
  /\ wstep' = "open"
  /\ writes' = writes + 1
  /\ UNCHANGED <<completed, orphans>>
  /\ UNCHANGED notWriteVars

\* json.dump(data, f, indent=2): one more piece reaches the file
DumpChunk ==
  /\ wstep = "open"
  /\ LET p == DumpPath("filepath", "temp_path")
     IN /\ disk[p].len < Chunks
        /\ disk' = [disk EXCEPT ![p].len = @ + 1]
  /\ UNCHANGED <<wstep, wdata, writes, completed, orphans>>
  /\ UNCHANGED notWriteVars

\* the file is closed and shutil.move(temp_path, filepath) renames it
MoveTemp ==
  /\ wstep = "open"
  /\ LET p == DumpPath("filepath", "temp_path")
     IN /\ IsComplete(disk[p])
        /\ disk' = [q \in Paths |-> IF q = "filepath" THEN disk[p] ELSE Absent]
  /\ completed' = wdata
  /\ wstep' = "idle"
  /\ wdata' = None
  /\ UNCHANGED <<writes, orphans>>
  /\ UNCHANGED notWriteVars

\* json.dump or shutil.move raises: the except block removes the temp file
\* and raises again
WriteFails ==
  /\ wstep = "open"
  /\ disk' = [disk EXCEPT !["temp_path"] = Absent]
  /\ wstep' = "idle"
  /\ wdata' = None
  /\ UNCHANGED <<writes, completed, orphans>>
  /\ UNCHANGED notWriteVars

\* the process is killed
Crash ==
  /\ wstep \in {"idle", "open"}
  /\ wstep' = "crashed"
  /\ UNCHANGED <<disk, wdata, writes, completed, orphans>>
  /\ UNCHANGED notWriteVars

\* the collector is started again: a temp file left behind is never
\* looked at again
StartAgain ==
  /\ wstep = "crashed"
  /\ wstep' = "idle"
  /\ wdata' = None
  /\ orphans' = (orphans \/ disk["temp_path"].exists)
  /\ disk' = [disk EXCEPT !["temp_path"] = Absent]
  /\ UNCHANGED <<writes, completed>>
  /\ UNCHANGED notWriteVars

(***************************************************************************)
(* Two threads of the executor, each running the feeds of its group on the *)
(* one FileCheckpoint.  The store takes no lock, so the statements of      *)
(* flush() interleave with the other thread's calls: the filtered copy of  *)
(* id_tracking, its assignment to the cached record, the write of the      *)
(* file, and the clearing of the dirty mark are four steps.                *)
(***************************************************************************)
Threads == {"assets", "vulnerabilities"}

\* the checkpoint key of the feed a thread runs
KeyOf(th) == IF th = "assets" THEN AssetKey ELSE VulnKey

\* list(self._dirty_keys): the keys of a set in some order
Orders(S) == {q \in [1..Cardinality(S) -> S] : Range(q) = S}

InitThreads ==
  /\ tpc = [th \in Threads |-> "work"]
  /\ keys_to_flush = [th \in Threads |-> <<>>]
  /\ id_tracking = [th \in Threads |-> <<>>]
  /\ resume = [th \in Threads |-> "work"]
  /\ marked_ids = [th \in Threads |-> {}]
  /\ run_ended = FALSE

\* flush() of thread th starts on the keys ks and goes on at `then' after it
StartFlush(th, ks, then) ==
  /\ keys_to_flush' = [keys_to_flush EXCEPT ![th] = ks]
  /\ resume' = [resume EXCEPT ![th] = then]
  /\ tpc' = [tpc EXCEPT ![th] = IF ks = <<>> THEN then ELSE "copy"]

\* mark_processed(item_id) of the thread's feed: add_processed_id, which
\* goes into flush(key) at the flush interval
MarkProcessed(th) ==
  /\ tpc[th] = "work"
  /\ \E id \in Ids \ marked_ids[th] :
       LET st == AddToCache(Store, KeyOf(th), id, now)
       IN /\ SetStore(st)
          /\ marked_ids' = [marked_ids EXCEPT ![th] = @ \cup {id}]
          /\ IF st.pending[KeyOf(th)] >= FlushInterval
             THEN StartFlush(th, <<KeyOf(th)>>, "work")
             ELSE UNCHANGED <<tpc, keys_to_flush, resume>>
  /\ UNCHANGED <<now, id_tracking, run_ended>>
  /\ UNCHANGED notThreadVars

\* _process_feed after process(): flush_all() takes list(self._dirty_keys)
FeedFlushAll(th) ==
  /\ tpc[th] = "work"
  /\ \E ks \in Orders(dirty_keys) : StartFlush(th, ks, "done")
  /\ UNCHANGED <<storeVars, id_tracking, marked_ids, run_ended>>
  /\ UNCHANGED notThreadVars

\* the flush goes on with its next key, or is over
NextKey(th) ==
  /\ keys_to_flush' = [keys_to_flush EXCEPT ![th] = Tail(@)]
  /\ tpc' = [tpc EXCEPT ![th] = IF Tail(keys_to_flush[th]) = <<>>
                                THEN resume[th] ELSE "copy"]

\* flush(): a key that is not in the cache is passed over; else the ids
\* inside the retention window and the id cap are copied
FlushCopy(th) ==
  /\ tpc[th] = "copy"
  /\ LET k == Head(keys_to_flush[th])
     IN IF ~cache[k].loaded
        THEN /\ NextKey(th)
             /\ UNCHANGED id_tracking
        ELSE /\ id_tracking' = [id_tracking EXCEPT ![th] =
                  EnforceMaxIds(RemoveExpired(cache[k].data.id_tracking, now))]
             /\ tpc' = [tpc EXCEPT ![th] = "assign"]
             /\ UNCHANGED keys_to_flush
  /\ UNCHANGED <<storeVars, resume, marked_ids, run_ended>>
  /\ UNCHANGED notThreadVars

\* flush(): data['id_tracking'] = id_tracking
FlushAssign(th) ==
  /\ tpc[th] = "assign"
  /\ cache' = [cache EXCEPT ![Head(keys_to_flush[th])].data.id_tracking =
                 id_tracking[th]]
  /\ tpc' = [tpc EXCEPT ![th] = "write"]
  /\ UNCHANGED <<now, files, dirty_keys, pending_count>>
  /\ UNCHANGED <<keys_to_flush, id_tracking, resume, marked_ids, run_ended>>
  /\ UNCHANGED notThreadVars

\* flush(): self._atomic_write(filepath, data)
FlushWrite(th) ==
  /\ tpc[th] = "write"
  /\ LET k == Head(keys_to_flush[th])
     IN files' = [files EXCEPT ![k] = [exists |-> TRUE, data |-> cache[k].data]]
  /\ tpc' = [tpc EXCEPT ![th] = "discard"]
  /\ UNCHANGED <<now, cache, dirty_keys, pending_count>>
  /\ UNCHANGED <<keys_to_flush, id_tracking, resume, marked_ids, run_ended>>
  /\ UNCHANGED notThreadVars

\* flush(): self._dirty_keys.discard(k); self._pending_count[k] = 0
FlushDiscard(th) ==
  /\ tpc[th] = "discard"
  /\ LET k == Head(keys_to_flush[th])
     IN /\ dirty_keys' = dirty_keys \ {k}
        /\ pending_count' = [pending_count EXCEPT ![k] = 0]
  /\ NextKey(th)
  /\ UNCHANGED <<now, cache, files>>
  /\ UNCHANGED <<id_tracking, resume, marked_ids, run_ended>>
  /\ UNCHANGED notThreadVars

\* run_once after the groups' threads: its last flush_all()
LastFlushAll ==
  /\ ~run_ended
  /\ \A th \in Threads : tpc[th] = "done"
  /\ SetStore(FlushAll(Store, now))
  /\ run_ended' = TRUE
  /\ UNCHANGED <<now, tpc, keys_to_flush, id_tracking, resume, marked_ids>>
  /\ UNCHANGED notThreadVars

(***************************************************************************)
(* The public calls of FileCheckpoint, made one at a time by one feed on    *)
(* its key, the clock moving between them, and the process starting again  *)
(* on the same directory.  Every write succeeds.                           *)
(***************************************************************************)
\* the ids the caller marks
StoreIds == {1, 2, 3}

\* BaseFeedProcessor.checkpoint_key of the caller
CkKey == AssetKey

\* a FileCheckpoint made anew on the directory of `st'
NewInstance(st) ==
  [st EXCEPT !.cache = [k \in Keys |-> NotLoaded],
             !.dirty = {},
             !.pending = [k \in Keys |-> 0]]

InitCk == markedAt = [k \in Keys |-> [id \in StoreIds |-> None]]

CallSetLastTimestamp(k, ts) ==
  /\ SetStore(SetLastTimestamp(Store, k, ts, now))
  /\ UNCHANGED <<now, markedAt>>
  /\ UNCHANGED notCkVars

CallAddProcessedId(k, id) ==
  /\ SetStore(AddProcessedId(Store, k, id, now))
  /\ markedAt' = [markedAt EXCEPT ![k][id] = now]
  /\ UNCHANGED now
  /\ UNCHANGED notCkVars

\* the ids of a caller that also adds in batches
BatchIds == {1, 2}

\* the lists it hands to add_processed_ids_batch: no id, one id, or both
\* ids in either order
Batches ==
  {b \in UNION {[1..n -> BatchIds] : n \in 0..2} :
     \A i, j \in DOMAIN b : i # j => b[i] # b[j]}

\* calls of add_processed_ids_batch the model follows
MaxBatches == 2

InitBatch ==
  /\ batches = 0
  /\ last_batch = <<>>

CallAddProcessedIdsBatch(k, ids) ==
  /\ batches < MaxBatches
  /\ SetStore(AddProcessedIdsBatch(Store, k, ids, now))
  /\ markedAt' = [markedAt EXCEPT ![k] =
                    [id \in StoreIds |->
                       IF \E i \in DOMAIN ids : ids[i] = id THEN now ELSE @[id]]]
  /\ batches' = batches + 1
  /\ last_batch' = ids
  /\ UNCHANGED now
  /\ UNCHANGED notBatchVars

\* clear_checkpoint(key): from here on the caller has marked no id
CallClearCheckpoint(k) ==
  /\ SetStore(ClearCheckpoint(Store, k))
  /\ markedAt' = [markedAt EXCEPT ![k] = [id \in StoreIds |-> None]]
  /\ UNCHANGED now
  /\ UNCHANGED notCkVars

CallFlush(k) ==
  /\ SetStore(Flush(Store, k, now))
  /\ UNCHANGED <<now, markedAt>>
  /\ UNCHANGED notCkVars

CallFlushAll ==
  /\ SetStore(FlushAll(Store, now))
  /\ UNCHANGED <<now, markedAt>>
  /\ UNCHANGED notCkVars

\* time.time() moves on
ClockTick ==
  /\ now < MaxTime
  /\ now' = now + 1
  /\ UNCHANGED <<cache, files, dirty_keys, pending_count, markedAt>>
  /\ UNCHANGED notCkVars

\* the process ends and a new FileCheckpoint is made on the directory: what
\* the old one had not written is gone
StartNewInstance ==
  /\ SetStore(NewInstance(Store))
  /\ markedAt' = [k \in Keys |-> [id \in StoreIds |->
                    TsOf(files[k].data.id_tracking, id)]]
  /\ UNCHANGED now
  /\ UNCHANGED notCkVars

(***************************************************************************)
(* DeletedAssetProcessor.process: a scan that passed _should_run_full_scan. *)
(* The export gives the set `current'; a deletion event is sent for each   *)
(* stored id that is not in it, and each id of it is marked processed.     *)
(* Python iterates both sets in an order of its own.                       *)
(***************************************************************************)
\* the asset ids the export can give
AssetIds == {1, 2, 3}

NoDiff == [ran |-> FALSE, previous |-> {}, current |-> {}, sent |-> <<>>,
           stored |-> {}]

InitDiff == lastDiff = NoDiff

\* deleted_assets = previous_assets - current_assets
DeletedAssets(previous, current) == previous \ current

DiffRun(current, sendOrder, markOrder) ==
  LET s1 == LoadCheckpoint(Store, DeletedKey)
      previous_assets == GetProcessedIds(s1, DeletedKey, now)
      deleted_assets == DeletedAssets(previous_assets, current)
      s2 == MarkAll(s1, DeletedKey, markOrder, now)
  IN /\ sendOrder \in Orders(deleted_assets)
     /\ markOrder \in Orders(current)
     /\ SetStore(s2)
     /\ lastDiff' = [ran |-> TRUE,
                     previous |-> previous_assets,
                     current |-> current,
                     sent |-> sendOrder,
                     stored |-> GetProcessedIds(s2, DeletedKey, now)]
     /\ UNCHANGED now
     /\ UNCHANGED notDiffVars

\* _process_feed: self.checkpoint.flush_all() after process()
DiffFlushAll ==
  /\ lastDiff.ran
  /\ SetStore(FlushAll(Store, now))
  /\ UNCHANGED <<now, lastDiff>>
  /\ UNCHANGED notDiffVars

\* time.time() moves on between two scans
DiffClockTick ==
  /\ now < MaxTime
  /\ now' = now + 1
  /\ UNCHANGED <<cache, files, dirty_keys, pending_count, lastDiff>>
  /\ UNCHANGED notDiffVars

(***************************************************************************)
(* DeletedAssetProcessor.process with its gate.  The time of the last full *)
(* scan is kept in a record of its own, under the key 'deleted_asset',     *)
(* which is dirty as long as the cached time differs from the filed one;   *)
(* the ids are under the checkpoint key of the feed.  The clock counts     *)
(* hours here, and time.time() is more than the interval past the epoch,   *)
(* so a record without last_full_scan lets the scan run.                   *)
(***************************************************************************)
\* DELETED_ASSET_SCAN_INTERVAL_HOURS
ScanInterval == 2

\* the asset ids the export gives to the gated scans
GateIds == {1, 2}

NoScan == [called |-> FALSE, at |-> 0, enumerated |-> FALSE,
           completed |-> FALSE, events |-> 0, changed |-> FALSE]

\* a gate that is always open
AlwaysRunFullScan(last_scan_at, t) == TRUE

\* _should_run_full_scan: hours_since_scan < scan_interval_hours is a skip
ShouldRunFullScan(last_scan_at, t) ==
  last_scan_at = None \/ ~(t - last_scan_at < ScanInterval)

InitGate ==
  /\ cached_full_scan = None
  /\ filed_full_scan = None
  /\ prev_scan = NoScan
  /\ last_scan = NoScan

\* process(): the gate, then the export of `current' (which may raise),
\* the deletion events, the marks and the time of the scan
GateProcess(current, markOrder, export_ok) ==
  LET s1 == LoadCheckpoint(Store, DeletedKey)
      gate_open == ShouldRunFullScan(cached_full_scan, now)
      completes == gate_open /\ export_ok
      previous_assets == GetProcessedIds(s1, DeletedKey, now)
      deleted_assets == DeletedAssets(previous_assets, current)
      s2 == IF completes THEN MarkAll(s1, DeletedKey, markOrder, now) ELSE s1
  IN /\ markOrder \in Orders(current)
     /\ ~completes => current = {}
     /\ ~gate_open => export_ok
     /\ SetStore(s2)
     /\ cached_full_scan' = IF completes THEN now ELSE cached_full_scan
     /\ UNCHANGED filed_full_scan
     /\ prev_scan' = last_scan
     /\ last_scan' = [called |-> TRUE, at |-> now,
                      enumerated |-> gate_open,
                      completed |-> completes,
                      events |-> IF completes THEN Cardinality(deleted_assets)
                                 ELSE 0,
                      changed |-> GetProcessedIds(s2, DeletedKey, now)
                                    # previous_assets]
     /\ UNCHANGED now
     /\ UNCHANGED notGateVars

\* _process_feed: self.checkpoint.flush_all() after process()
GateFlushAll ==
  /\ SetStore(FlushAll(Store, now))
  /\ filed_full_scan' = cached_full_scan
  /\ UNCHANGED <<now, cached_full_scan, prev_scan, last_scan>>
  /\ UNCHANGED notGateVars

\* the collector ends after the flush_all of its run and starts again on
\* the same checkpoint directory
GateRestart ==
  /\ dirty_keys = {}
  /\ filed_full_scan = cached_full_scan
  /\ SetStore(NewInstance(Store))
  /\ cached_full_scan' = filed_full_scan
  /\ UNCHANGED <<now, filed_full_scan, prev_scan, last_scan>>
  /\ UNCHANGED notGateVars

\* time.time() moves on by an hour
GateTick ==
  /\ now < MaxTime
  /\ now' = now + 1
  /\ UNCHANGED <<cache, files, dirty_keys, pending_count>>
  /\ UNCHANGED gateVars
  /\ UNCHANGED notGateVars

(***************************************************************************)
(* The feed threads of the executor on the one CriblHECHandler.            *)
(*                                                                         *)
(* send_batch and flush run inside `with self._lock'.  A thread in         *)
(* send_batch hands its events one by one to sendEvent, which appends to   *)
(* batchEvents and first posts the batch when the event would not fit;     *)
(* then it calls flushBatch.  flushBatch posts the batch and leaves it     *)
(* empty however it ends.  An event is written [w, call]: the thread and   *)
(* the number of its call.  Every payload is one byte long.                *)
(***************************************************************************)
MaxCalls == 2
CallLen == 3
MaxBatchBytes == 2

NoWorker == "none"

\* how a flushBatch inside the lock can end
FlushEnds == {"ok", "failed", "raised"}

\* a lock that lets everyone in
AlwaysFree(l) == TRUE

\* threading.Lock: acquire() goes through when nobody holds it
LockFree(l) == l = NoWorker

InitSink ==
  /\ hec_lock = NoWorker
  /\ spc = [w \in Threads |-> "idle"]
  /\ send_calls = [w \in Threads |-> 0]
  /\ to_send = [w \in Threads |-> <<>>]
  /\ batchEvents = <<>>
  /\ currentByteLength = 0
  /\ lastBody = <<>>

\* send_batch(events) with events not empty, up to `with self._lock'
CallSendBatch(w, n) ==
  /\ spc[w] = "idle"
  /\ send_calls[w] < MaxCalls
  /\ send_calls' = [send_calls EXCEPT ![w] = @ + 1]
  /\ to_send' = [to_send EXCEPT
                   ![w] = [i \in 1..n |-> [w |-> w, call |-> send_calls[w] + 1]]]
  /\ spc' = [spc EXCEPT ![w] = "waiting"]
  /\ UNCHANGED <<hec_lock, batchEvents, currentByteLength, lastBody>>
  /\ UNCHANGED notSinkVars

\* flush(), up to `with self._lock'
CallSinkFlush(w) ==
  /\ spc[w] = "idle"
  /\ send_calls[w] < MaxCalls
  /\ send_calls' = [send_calls EXCEPT ![w] = @ + 1]
  /\ spc' = [spc EXCEPT ![w] = "waiting"]
  /\ UNCHANGED <<hec_lock, to_send, batchEvents, currentByteLength, lastBody>>
  /\ UNCHANGED notSinkVars

\* with self._lock: __enter__
AcquireLock(w) ==
  /\ spc[w] = "waiting"
  /\ LockFree(hec_lock)
  /\ hec_lock' = w
  /\ spc' = [spc EXCEPT ![w] = "locked"]
  /\ UNCHANGED <<send_calls, to_send, batchEvents, currentByteLength, lastBody>>
  /\ UNCHANGED notSinkVars

\* one turn of send_batch's loop: sendEvent(payload).  `dumps' is whether
\* json_dumps returns; `ends' is how the flushBatch of a full batch ends.
AddToBatch(w, dumps, ends) ==
  /\ spc[w] = "locked"
  /\ to_send[w] # <<>>
  /\ to_send' = [to_send EXCEPT ![w] = Tail(@)]
  /\ LET full == currentByteLength + 1 > MaxBatchBytes
         sends == dumps /\ full /\ batchEvents # <<>>
         flushed == dumps /\ full
         appends == dumps /\ (full => ends # "raised")
         kept == IF flushed THEN <<>> ELSE batchEvents
     IN /\ ~flushed => ends = "ok"
        /\ lastBody' = IF sends THEN batchEvents ELSE lastBody
        /\ batchEvents' = IF appends THEN Append(kept, Head(to_send[w])) ELSE kept
        /\ currentByteLength' = Len(batchEvents')
  /\ UNCHANGED <<hec_lock, spc, send_calls>>
  /\ UNCHANGED notSinkVars

\* the flushBatch that ends send_batch and flush, and the lock's __exit__
FlushAndRelease(w, ends) ==
  /\ spc[w] = "locked"
  /\ to_send[w] = <<>>
  /\ batchEvents = <<>> => ends = "ok"
  /\ lastBody' = IF batchEvents # <<>> THEN batchEvents ELSE lastBody
  /\ batchEvents' = <<>>
  /\ currentByteLength' = 0
  /\ hec_lock' = NoWorker
  /\ spc' = [spc EXCEPT ![w] = "idle"]
  /\ UNCHANGED <<send_calls, to_send>>
  /\ UNCHANGED notSinkVars

(***************************************************************************)
(* http_event_collector.flushBatch, one caller.                            *)
(*                                                                         *)
(* The loop runs over range(max_retries + 1); each turn calls session.post *)
(* once, which gives a response with a status, or raises Timeout,          *)
(* ConnectionError or another exception.                                   *)
(***************************************************************************)
HecMaxRetries == 3
MaxFlushes == 2

\* DEFAULT_RETRY_STATUS_CODES
RetryStatusCodes == {429, 500, 502, 503, 504}

\* the statuses the collector can answer with
Statuses == {200, 201, 204, 400, 401, 403, 404, 429, 500, 501, 502, 503, 504, 507}

\* the exceptions session.post can raise, as flushBatch tells them apart
Transport == {"Timeout", "ConnectionError", "Exception"}

NoStatus == 0

\* how session.post can end: a response with a status, or an exception
PostEnds == [status : Statuses, error : {"none"}] \cup
            [status : {NoStatus}, error : Transport]

NoPost == [status |-> NoStatus, error |-> "none"]

\* a loop that never runs out of turns
TurnsForever(a) == TRUE

\* for attempt in range(self.max_retries + 1): there is a turn after turn a
TurnsLeft(a) == a < HecMaxRetries

\* what flushBatch does with how session.post ended
Classify(r) ==
  IF r.error \in {"Timeout", "ConnectionError"} THEN "retry"
  ELSE IF r.error = "Exception" THEN "raise"
  ELSE IF r.status = 200 THEN "success"
  ELSE IF r.status \in RetryStatusCodes THEN "retry"
  ELSE "rejected"

InitHec ==
  /\ fpc = "idle"
  /\ hec_attempt = 0
  /\ posts = 0
  /\ last_status = NoPost
  /\ flush_result = "none"
  /\ error_count = 0
  /\ errors_before = 0
  /\ flushes = 0

\* sendEvent, n times, on an empty batch the events fit in
FillBatch(n) ==
  /\ fpc \in {"idle", "ended"}
  /\ batchEvents = <<>>
  /\ flushes < MaxFlushes
  /\ batchEvents' = [i \in 1..n |-> [w |-> "assets", call |-> flushes + 1]]
  /\ currentByteLength' = n
  /\ fpc' = "idle"
  /\ UNCHANGED <<hec_attempt, posts, last_status, flush_result, error_count,
                 errors_before, flushes>>
  /\ UNCHANGED notHecVars

\* flushBatch up to the loop; an empty batch returns at once
EnterFlushBatch ==
  /\ fpc \in {"idle", "ended"}
  /\ flushes < MaxFlushes
  /\ flushes' = flushes + 1
  /\ hec_attempt' = 0
  /\ posts' = 0
  /\ last_status' = NoPost
  /\ errors_before' = error_count
  /\ IF batchEvents = <<>>
     THEN fpc' = "ended" /\ flush_result' = "empty"
     ELSE fpc' = "post" /\ flush_result' = "none"
  /\ UNCHANGED <<batchEvents, currentByteLength, error_count>>
  /\ UNCHANGED notHecVars

\* one turn of the loop: session.post ends with `r'
PostBatch(r) ==
  /\ fpc = "post"
  /\ posts' = posts + 1
  /\ last_status' = r
  /\ LET what == Classify(r)
         goes_on == what = "retry" /\ TurnsLeft(hec_attempt)
     IN /\ fpc' = IF goes_on THEN "post" ELSE "ended"
        /\ hec_attempt' = IF goes_on THEN hec_attempt + 1 ELSE hec_attempt
        /\ flush_result' = IF goes_on THEN "none"
                           ELSE IF what = "retry" THEN "exhausted"
                           ELSE what
        /\ error_count' = IF goes_on \/ what = "success" THEN error_count
                          ELSE error_count + 1
        /\ batchEvents' = IF goes_on THEN batchEvents ELSE <<>>
        /\ currentByteLength' = IF goes_on THEN currentByteLength ELSE 0
  /\ UNCHANGED <<errors_before, flushes>>
  /\ UNCHANGED notHecVars

(***************************************************************************)
(* http_event_collector: the adaptive rate limiting of flushBatch.         *)
(*                                                                         *)
(* Delays are in milliseconds; a product with _speedup_factor = 0.9 is     *)
(* rounded down to a whole millisecond.  The initial delay is what the     *)
(* configuration gives (HEC_BATCH_DELAY, any number that is not negative). *)
(***************************************************************************)
MinBatchDelay == 1
MaxBatchDelay == 1000
ThrottleFactor == 2
SpeedupNum == 9
SpeedupDen == 10
SpeedupThreshold == 10
DefaultBatchDelay == 10

\* float(os.getenv('HEC_BATCH_DELAY', 0.01))
InitialDelays == {0, 1, 10, 600, 1000, 5000}

\* how a turn of flushBatch's loop can end, as the pacing tells them apart
Signals == {"200", "429", "503", "500", "Timeout", "ConnectionError", "400"}

NoPace == [signal |-> "none", old_delay |-> 0, speedup |-> FALSE]

\* max(self._min_batch_delay, self.batch_delay * self._speedup_factor)
SpeedUp(d) == Max(MinBatchDelay, (d * SpeedupNum) \div SpeedupDen)

\* min(self._max_batch_delay, self.batch_delay * self._throttle_factor)
Throttle(d) == Min(MaxBatchDelay, d * ThrottleFactor)

InitIdlePace ==
  /\ batch_delay = DefaultBatchDelay
  /\ initial_batch_delay = DefaultBatchDelay
  /\ consecutive_successes = 0
  /\ lastPace = NoPace

InitPace ==
  /\ batch_delay \in InitialDelays
  /\ initial_batch_delay = batch_delay
  /\ consecutive_successes = 0
  /\ lastPace = NoPace

\* a turn answered 200
PaceSuccess ==
  LET n == consecutive_successes + 1
      reached == n >= SpeedupThreshold
  IN /\ batch_delay' = IF reached THEN SpeedUp(batch_delay) ELSE batch_delay
     /\ consecutive_successes' = IF reached THEN 0 ELSE n
     /\ lastPace' = [signal |-> "200", old_delay |-> batch_delay,
                     speedup |-> reached]
     /\ UNCHANGED initial_batch_delay
     /\ UNCHANGED notPaceVars

\* a turn answered with a status of the retry list, or ended by Timeout
PaceRetry(sig) ==
  /\ sig \in {"429", "503", "500", "Timeout"}
  /\ batch_delay' = IF sig = "500" THEN batch_delay ELSE Throttle(batch_delay)
  /\ consecutive_successes' = 0
  /\ lastPace' = [signal |-> sig, old_delay |-> batch_delay, speedup |-> FALSE]
  /\ UNCHANGED initial_batch_delay
  /\ UNCHANGED notPaceVars

\* a turn ended by ConnectionError or answered with another status: the
\* pacing is left as it is
PaceOther(sig) ==
  /\ sig \in {"ConnectionError", "400"}
  /\ lastPace' = [signal |-> sig, old_delay |-> batch_delay, speedup |-> FALSE]
  /\ UNCHANGED <<batch_delay, initial_batch_delay, consecutive_successes>>
  /\ UNCHANGED notPaceVars

(***************************************************************************)
(* The settings TenableIntegration.__init__ reads for the execution mode,  *)
(* with the run_once they lead to.                                         *)
(***************************************************************************)
\* values of MAX_CONCURRENT_FEEDS
WorkerCounts == {1, 3}

\* the defaults of the three settings
InitIdleModes ==
  /\ fully_sequential = FALSE
  /\ smart_grouping = TRUE
  /\ max_workers = 1

\* a configuration, and run_once(data_types) up to the branch it takes
InitModes ==
  /\ InitSched
  /\ fully_sequential \in BOOLEAN
  /\ smart_grouping \in BOOLEAN
  /\ max_workers \in WorkerCounts
  /\ mode = ModeOf(fully_sequential, smart_grouping, feeds_to_process)

(***************************************************************************)
(* The process: main, run_daemon and _graceful_shutdown, around a run_once *)
(* seen as a loop over its feeds and the statements after the loop.  A     *)
(* feed that has started terminates.                                       *)
(***************************************************************************)
\* run_once calls a daemon makes before the model stops starting new ones
MaxRuns == 2
\* feeds selected for each run_once
FeedsPerRun == 2

\* how the statements after the loop of run_once end
RunEndings == {"returns", "log_summary raises", "flush_all raises"}

\* a step of the end of a run: what it was and whether it raised
Step(what, ok) == [step |-> what, ok |-> ok]

InitIdleProc ==
  /\ daemon = FALSE
  /\ ppc = "exited"
  /\ runs = 0
  /\ feeds_left = 0
  /\ steps = <<>>

\* main() has parsed its arguments and built the integration
InitProc ==
  /\ daemon \in BOOLEAN
  /\ ppc = "main"
  /\ runs = 0
  /\ feeds_left = 0
  /\ steps = <<>>

\* run_once is entered
EnterRunOnce ==
  /\ ppc' = "run_once"
  /\ runs' = runs + 1
  /\ feeds_left' = FeedsPerRun
  /\ steps' = <<>>

\* main: run_daemon or run_once
MainStarts ==
  /\ ppc = "main"
  /\ IF daemon
     THEN ppc' = "daemon_loop" /\ UNCHANGED <<runs, feeds_left, steps>>
     ELSE EnterRunOnce
  /\ UNCHANGED daemon
  /\ UNCHANGED notProcVars

\* run_daemon: `while not self._shutdown_event.is_set()'
DaemonLoopTop ==
  /\ ppc = "daemon_loop"
  /\ IF IsSet(shutdown_event)
     THEN ppc' = "cleanup" /\ UNCHANGED <<runs, feeds_left, steps>>
     ELSE runs < MaxRuns /\ EnterRunOnce
  /\ UNCHANGED daemon
  /\ UNCHANGED notProcVars

\* run_once: one turn of a loop over the feeds, the event not being set
RunFeed ==
  /\ ppc = "run_once"
  /\ feeds_left > 0
  /\ ~IsSet(shutdown_event)
  /\ feeds_left' = feeds_left - 1
  /\ UNCHANGED <<daemon, ppc, runs, steps>>
  /\ UNCHANGED notProcVars

\* run_once after its loop (exhausted, or left by the shutdown check):
\* log_summary, flush_all, and flush_all again in the finally clause; then
\* main returns, or run_daemon waits for the interval
RunOnceEnds(ending) ==
  /\ ppc = "run_once"
  /\ feeds_left = 0 \/ IsSet(shutdown_event)
  /\ steps' = steps \o
       ( IF ending = "log_summary raises"
         THEN <<Step("metrics", FALSE)>>
         ELSE <<Step("metrics", TRUE),
                Step("checkpoints", ending = "returns")>> ) \o
       <<Step("checkpoints", TRUE)>>
  /\ ppc' = IF daemon THEN "waiting" ELSE "exited"
  /\ UNCHANGED <<daemon, runs, feeds_left>>
  /\ UNCHANGED notProcVars

\* run_daemon: self._shutdown_event.wait(timeout=interval) returns
WaitEnds ==
  /\ ppc = "waiting"
  /\ ppc' = IF IsSet(shutdown_event) THEN "cleanup" ELSE "daemon_loop"
  /\ UNCHANGED <<daemon, runs, feeds_left, steps>>
  /\ UNCHANGED notProcVars

\* _graceful_shutdown: flush_all and cribl.flush, each in its try, then
\* log_summary
GracefulShutdown(ck_ok, sink_ok) ==
  /\ ppc = "cleanup"
  /\ steps' = steps \o <<Step("checkpoints", ck_ok), Step("sink", sink_ok),
                          Step("metrics", TRUE)>>
  /\ ppc' = "exited"
  /\ UNCHANGED <<daemon, runs, feeds_left>>
  /\ UNCHANGED notProcVars

\* SIGTERM or SIGINT reaches the process
ProcSignal ==
  /\ ppc # "exited"
  /\ Signal

(***************************************************************************)
(* FileCheckpoint on a directory whose files cannot all be read, with      *)
(* writes that can fail.  A file that exists holds JSON of the expected    *)
(* shape, or cannot be opened, or does not parse (json.load raises).       *)
(***************************************************************************)
FileKinds == {"json", "unreadable", "unparsable"}

\* ids a caller adds without a flush of them succeeding
MaxPending == 3

\* the ids the caller marks and asks for
DiskIds == {1, 2}

\* a checkpoint file left by an earlier process
OldData == [id_tracking |-> <<[id |-> 1, ts |-> 0]>>, last_timestamp |-> 1]

NoCall == [op |-> "none", key |-> CkKey, file |-> "cached", raised |-> FALSE,
           write |-> "none", retry |-> FALSE, cursor |-> None, live |-> {}]

\* what open() and json.load() raise in _load_checkpoint
ReadError(f, kind) ==
  IF ~f.exists THEN "none"
  ELSE IF kind = "unreadable" THEN "IOError"
  ELSE IF kind = "unparsable" THEN "ValueError"
  ELSE "none"

\* a _load_checkpoint without its try
CaughtNoLoadError(e) == FALSE

\* _load_checkpoint's `except Exception'
LoadCaught(e) == e \in {"IOError", "ValueError"}

\* _load_checkpoint(key) raises
LoadRaises(st, kinds, k) ==
  /\ ~st.cache[k].loaded
  /\ ReadError(st.files[k], kinds[k]) # "none"
  /\ ~LoadCaught(ReadError(st.files[k], kinds[k]))

\* _load_checkpoint(key), whatever the file holds
LoadFile(st, kinds, k) ==
  IF st.cache[k].loaded THEN st
  ELSE IF ReadError(st.files[k], kinds[k]) = "none" THEN LoadCheckpoint(st, k)
  ELSE IF LoadRaises(st, kinds, k) THEN st
  ELSE [st EXCEPT !.cache[k] = [loaded |-> TRUE, data |-> DefaultData],
                  !.pending[k] = 0]

\* what _load_checkpoint(key) finds
FileSeen(st, kinds, k) ==
  IF st.cache[k].loaded THEN "cached"
  ELSE IF ~st.files[k].exists THEN "missing"
  ELSE kinds[k]

\* a failed flush that takes the key for written
FlushKeyFailsForgets(st, k, t) ==
  IF ~st.cache[k].loaded THEN st
  ELSE [st EXCEPT !.cache[k].data = Cleaned(@, t),
                  !.dirty = @ \ {k},
                  !.pending[k] = 0]

\* flush: the body of the loop for one key, _atomic_write raising: the
\* cached record has been cleaned, the except clause logs
FlushKeyFails(st, k, t) ==
  IF ~st.cache[k].loaded THEN st
  ELSE [st EXCEPT !.cache[k].data = Cleaned(@, t)]

RECURSIVE FlushKeysFail(_, _, _)
FlushKeysFail(st, ks, t) ==
  IF ks = {} THEN st
  ELSE LET k == CHOOSE x \in ks : TRUE
       IN FlushKeysFail(FlushKeyFails(st, k, t), ks \ {k}, t)

\* flush(key), the write succeeding or not
FlushOn(st, k, t, ok) ==
  IF ok THEN Flush(st, k, t) ELSE FlushKeyFails(st, k, t)

\* the files after a call: a file written is JSON again
KindsAfter(st, k, wrote) ==
  IF wrote /\ st.cache[k].loaded THEN [file_kind EXCEPT ![k] = "json"]
  ELSE file_kind

\* the non-expired ids and the cursor the cache holds for a key
Live(st, k, t) == GetProcessedIds(st, k, t)
Cursor(st, k) == st.cache[k].data.last_timestamp

InitIdleDisk ==
  /\ file_kind = [k \in Keys |-> "json"]
  /\ lastCall = NoCall

\* a new FileCheckpoint on a directory where the caller's file is missing,
\* unreadable, unparsable or sound
InitDisk ==
  /\ now = 0
  /\ cache = [k \in Keys |-> NotLoaded]
  /\ \E f \in {NoFile, [exists |-> TRUE, data |-> OldData]} :
       files = [k \in Keys |-> IF k = CkKey THEN f ELSE NoFile]
  /\ dirty_keys = {}
  /\ pending_count = [k \in Keys |-> 0]
  /\ \E kind \in FileKinds :
       file_kind = [k \in Keys |-> IF k = CkKey THEN kind ELSE "json"]
  /\ lastCall = NoCall

\* get_last_timestamp(key) and is_processed(key, id) for every id
DiskLookup(k) ==
  LET s1 == LoadFile(Store, file_kind, k)
      raised == LoadRaises(Store, file_kind, k)
  IN /\ SetStore(s1)
     /\ lastCall' = [op |-> "lookup", key |-> k,
                     file |-> FileSeen(Store, file_kind, k),
                     raised |-> raised, write |-> "none", retry |-> FALSE,
                     cursor |-> IF raised THEN None ELSE GetLastTimestamp(s1, k),
                     live |-> IF raised THEN {}
                              ELSE {id \in DiskIds : IsProcessed(s1, k, id, now)}]
     /\ UNCHANGED <<now, file_kind>>
     /\ UNCHANGED notDiskVars

\* set_last_timestamp(key, timestamp), its write succeeding or not
DiskSetLastTimestamp(k, ts, ok) ==
  LET s1 == LoadFile(Store, file_kind, k)
      s2 == [s1 EXCEPT !.cache[k].data.last_timestamp = ts,
                       !.dirty = @ \cup {k}]
  IN /\ ~LoadRaises(Store, file_kind, k)
     /\ SetStore(FlushOn(s2, k, now, ok))
     /\ file_kind' = KindsAfter(s2, k, ok)
     /\ lastCall' = [op |-> "set_last_timestamp", key |-> k,
                     file |-> FileSeen(Store, file_kind, k),
                     raised |-> FALSE,
                     write |-> IF ok THEN "done" ELSE "failed",
                     retry |-> lastCall.write = "failed",
                     cursor |-> ts, live |-> Live(s2, k, now)]
     /\ UNCHANGED now
     /\ UNCHANGED notDiskVars

\* add_processed_id(key, item_id), the write of its flush succeeding or not
DiskAddProcessedId(k, id, ok) ==
  LET s1 == LoadFile(Store, file_kind, k)
      s2 == AddToCache(s1, k, id, now)
      flushing == s2.pending[k] >= FlushInterval
  IN /\ ~LoadRaises(Store, file_kind, k)
     /\ pending_count[k] < MaxPending
     /\ flushing \/ ok
     /\ SetStore(IF flushing THEN FlushOn(s2, k, now, ok) ELSE s2)
     /\ file_kind' = KindsAfter(s2, k, flushing /\ ok)
     /\ lastCall' = [op |-> "add_processed_id", key |-> k,
                     file |-> FileSeen(Store, file_kind, k),
                     raised |-> FALSE,
                     write |-> IF ~flushing THEN "none"
                               ELSE IF ok THEN "done" ELSE "failed",
                     retry |-> lastCall.write = "failed",
                     cursor |-> Cursor(s2, k), live |-> Live(s2, k, now)]
     /\ UNCHANGED now
     /\ UNCHANGED notDiskVars

\* flush_all(), the write of every dirty key succeeding or not
DiskFlushAll(ok) ==
  /\ SetStore(IF ok THEN FlushAll(Store, now)
              ELSE FlushKeysFail(Store, dirty_keys, now))
  /\ file_kind' = IF ok /\ CkKey \in dirty_keys
                  THEN KindsAfter(Store, CkKey, TRUE) ELSE file_kind
  /\ lastCall' = [op |-> "flush_all", key |-> CkKey, file |-> "cached",
                  raised |-> FALSE,
                  write |-> IF CkKey \notin dirty_keys THEN "none"
                            ELSE IF ok THEN "done" ELSE "failed",
                  retry |-> lastCall.write = "failed",
                  cursor |-> Cursor(Store, CkKey),
                  live |-> Live(Store, CkKey, now)]
  /\ UNCHANGED now
  /\ UNCHANGED notDiskVars

\* time.time() moves on
DiskTick ==
  /\ now < MaxTime
  /\ now' = now + 1
  /\ lastCall' = NoCall
  /\ UNCHANGED <<cache, files, dirty_keys, pending_count, file_kind>>
  /\ UNCHANGED notDiskVars

\* the process ends and a new FileCheckpoint is made on the directory
DiskNewInstance ==
  /\ SetStore(NewInstance(Store))
  /\ lastCall' = NoCall
  /\ UNCHANGED <<now, file_kind>>
  /\ UNCHANGED notDiskVars

(***************************************************************************)
(* ProcessLock: acquire and release by two processes on one lock file,     *)
(* statement by statement.                                                 *)
(***************************************************************************)
\* self.timeout, in ticks of the clock
LockTimeout == 2

Procs == {1, 2}

NoLockFile == [exists |-> FALSE, pid |-> 0]

InitLock ==
  /\ lock_file = NoLockFile
  /\ lock_age = 0
  /\ lpc = [p \in Procs |-> "idle"]
  /\ results = [p \in Procs |-> "none"]
  /\ taken_over = FALSE

\* acquire: os.path.exists and the age of the file: an active lock returns
\* False, a stale one is to be removed, no file leads to the creation
AcquireCheck(p) ==
  /\ lpc[p] = "idle"
  /\ IF ~lock_file.exists
     THEN lpc' = [lpc EXCEPT ![p] = "create"] /\ results' = results
     ELSE IF lock_age < LockTimeout
     THEN lpc' = lpc /\ results' = [results EXCEPT ![p] = "False"]
     ELSE lpc' = [lpc EXCEPT ![p] = "remove"] /\ results' = results
  /\ UNCHANGED <<lock_file, lock_age, taken_over>>
  /\ UNCHANGED notLockVars

\* acquire: os.remove of a stale lock file; it raises when the file is gone
AcquireRemove(p) ==
  /\ lpc[p] = "remove"
  /\ IF lock_file.exists
     THEN /\ lock_file' = NoLockFile
          /\ lock_age' = 0
          /\ taken_over' = TRUE
          /\ lpc' = [lpc EXCEPT ![p] = "create"]
          /\ results' = results
     ELSE /\ lpc' = [lpc EXCEPT ![p] = "idle"]
          /\ results' = [results EXCEPT ![p] = "False"]
          /\ UNCHANGED <<lock_file, lock_age, taken_over>>
  /\ UNCHANGED notLockVars

\* acquire: open(self.lock_file, 'w') and the write of the pid
AcquireCreate(p) ==
  /\ lpc[p] = "create"
  /\ lock_file' = [exists |-> TRUE, pid |-> p]
  /\ lock_age' = 0
  /\ lpc' = [lpc EXCEPT ![p] = "holding"]
  /\ results' = [results EXCEPT ![p] = "True"]
  /\ UNCHANGED taken_over
  /\ UNCHANGED notLockVars

\* release: the file is removed if it exists, whoever wrote it
Release(p) ==
  /\ lpc[p] = "holding"
  /\ lock_file' = NoLockFile
  /\ lock_age' = 0
  /\ lpc' = [lpc EXCEPT ![p] = "idle"]
  /\ results' = [results EXCEPT ![p] = "none"]
  /\ UNCHANGED taken_over
  /\ UNCHANGED notLockVars

\* time passes
LockTick ==
  /\ lock_file.exists
  /\ lock_age < LockTimeout
  /\ lock_age' = lock_age + 1
  /\ UNCHANGED <<lock_file, lpc, results, taken_over>>
  /\ UNCHANGED notLockVars

(***************************************************************************)
(* ComplianceFeedProcessor.process: the scans of scans.list() one after    *)
(* the other, the cursor read once when the run begins.  A scan carries    *)
(* its status and its last_modification_date; a scan that is processed     *)
(* gives FindingsPerScan events, unless its details cannot be fetched.     *)
(***************************************************************************)
\* scans scans.list() returns
MaxScans == 2
\* compliance findings of a scan
FindingsPerScan == 2

ScanStamps == {1, 2, 3}
Scans == [status : {"completed", "running"}, ts : ScanStamps]
ScanLists == UNION {[1..n -> Scans] : n \in 1..MaxScans}

\* `scan_timestamp <= last_timestamp': an int against None raises TypeError
NotNewer(ts, last) ==
  IF last = None THEN "TypeError"
  ELSE IF ts <= last THEN "yes" ELSE "no"

InitIdleComp ==
  /\ comp_cursor = None
  /\ comp_pc = "idle"
  /\ comp_last = None
  /\ scan_list = <<>>
  /\ scan_idx = 1
  /\ comp_count = 0
  /\ comp_error = "not run"

\* a new processor on a checkpoint directory with or without a cursor
InitComp ==
  /\ comp_cursor \in {None} \cup ScanStamps
  /\ comp_pc = "idle"
  /\ comp_last = None
  /\ scan_list = <<>>
  /\ scan_idx = 1
  /\ comp_count = 0
  /\ comp_error = "not run"

\* process(): get_last_timestamp and scans.list
CompStart ==
  /\ comp_pc = "idle"
  /\ comp_last' = comp_cursor
  /\ scan_list' \in ScanLists
  /\ scan_idx' = 1
  /\ comp_count' = 0
  /\ comp_error' = "none"
  /\ comp_pc' = "scans"
  /\ UNCHANGED comp_cursor
  /\ UNCHANGED notCompVars

\* one turn of the loop over scan_list: a scan that is not completed or not
\* newer is passed over; the comparison raising ends process() in its outer
\* except clause; a newer scan sends its findings and stores its own
\* timestamp as the cursor, unless fetching its details raises
CompScan(details_ok) ==
  /\ comp_pc = "scans"
  /\ scan_idx <= Len(scan_list)
  /\ LET scan == scan_list[scan_idx]
         cmp == IF scan.status # "completed" THEN "yes"
                ELSE NotNewer(scan.ts, comp_last)
     IN IF cmp = "TypeError"
        THEN /\ details_ok
             /\ comp_pc' = "idle"
             /\ comp_error' = "TypeError"
             /\ UNCHANGED <<comp_cursor, scan_idx, comp_count>>
        ELSE /\ scan_idx' = scan_idx + 1
             /\ UNCHANGED <<comp_pc, comp_error>>
             /\ IF cmp = "no" /\ details_ok
                THEN /\ comp_count' = comp_count + FindingsPerScan
                     /\ comp_cursor' = scan.ts
                ELSE /\ cmp = "no" \/ details_ok
                     /\ UNCHANGED <<comp_cursor, comp_count>>
  /\ UNCHANGED <<comp_last, scan_list>>
  /\ UNCHANGED notCompVars

\* the loop is over: flush_events, log_completion, return event_count
CompFinish ==
  /\ comp_pc = "scans"
  /\ scan_idx > Len(scan_list)
  /\ comp_pc' = "idle"
  /\ UNCHANGED <<comp_cursor, comp_last, scan_list, scan_idx, comp_count,
                 comp_error>>
  /\ UNCHANGED notCompVars

(***************************************************************************)
(* The specifications.                                                     *)
(***************************************************************************)
\* the initial values of the variables of the sections added last
InitMore ==
     InitIdlePace /\ InitIdleModes /\ InitIdleProc /\ InitIdleDisk
  /\ InitLock /\ InitIdleComp /\ InitBatch /\ InitGate
InitMoreButPace ==
     InitIdleModes /\ InitIdleProc /\ InitIdleDisk /\ InitLock
  /\ InitIdleComp /\ InitBatch /\ InitGate
InitMoreButMode ==
     InitIdlePace /\ InitIdleProc /\ InitIdleDisk /\ InitLock /\ InitIdleComp
  /\ InitBatch /\ InitGate
InitMoreButProc ==
     InitIdlePace /\ InitIdleModes /\ InitIdleDisk /\ InitLock
  /\ InitIdleComp /\ InitBatch /\ InitGate
InitMoreButDisk ==
     InitIdlePace /\ InitIdleModes /\ InitIdleProc /\ InitLock
  /\ InitIdleComp /\ InitBatch /\ InitGate
InitMoreButLock ==
     InitIdlePace /\ InitIdleModes /\ InitIdleProc /\ InitIdleDisk
  /\ InitIdleComp /\ InitBatch /\ InitGate
InitMoreButComp ==
     InitIdlePace /\ InitIdleModes /\ InitIdleProc /\ InitIdleDisk
  /\ InitLock /\ InitBatch /\ InitGate
InitMoreButBatch ==
     InitIdlePace /\ InitIdleModes /\ InitIdleProc /\ InitIdleDisk
  /\ InitLock /\ InitIdleComp /\ InitGate
InitMoreButGate ==
     InitIdlePace /\ InitIdleModes /\ InitIdleProc /\ InitIdleDisk
  /\ InitLock /\ InitIdleComp /\ InitBatch

\* send_event and flush_events of one processor
InitFlushSpec == InitStore /\ InitFeed /\ InitRetry /\ InitIdleSched /\ InitWrite /\
  InitThreads /\ InitCk /\ InitDiff /\ InitSink /\ InitHec /\ InitMore

NextFlush ==
  \/ SendEvent
  \/ SendEventFlush
  \/ CallFlushEvents
  \/ CallFlushEventsRaises

SpecFlush == InitFlushSpec /\ [][NextFlush]_vars

\* the asset feed, run after run
InitFeedSpec == InitStore /\ InitFeed /\ InitRetry /\ InitIdleSched /\ InitWrite /\
  InitThreads /\ InitCk /\ InitDiff /\ InitSink /\ InitHec /\ InitMore

NextFeed ==
  \/ StartRun
  \/ PullDuplicate
  \/ PullItem
  \/ PullItemFlush
  \/ FinishRun
  \/ FinishRunFlush
  \/ ExportError
  \/ Tick
  \/ Restart

SpecFeed == InitFeedSpec /\ [][NextFeed]_vars

\* one call of _safe_export_with_retry, consumed to its end
InitRetrySpec == InitStore /\ InitFeed /\ InitRetry /\ InitIdleSched /\ InitWrite /\
  InitThreads /\ InitCk /\ InitDiff /\ InitSink /\ InitHec /\ InitMore

NextRetry ==
  \/ InvokeExport
  \/ YieldItem
  \/ ExportCompletes
  \/ RetryExport
  \/ PropagateError

SpecRetry == InitRetrySpec /\ [][NextRetry]_vars

\* one run_once
InitSchedSpec == InitStore /\ InitFeed /\ InitRetry /\ InitSched /\ InitWrite /\
  InitThreads /\ InitCk /\ InitDiff /\ InitSink /\ InitHec /\ InitMore

NextSched ==
  \/ \E w \in DOMAIN plan : LoopTop(w)
  \/ \E w \in DOMAIN plan : EnterFeed(w)
  \/ \E w \in DOMAIN plan : FeedReturns(w)
  \/ \E w \in DOMAIN plan : FeedFails(w)
  \/ \E w \in DOMAIN plan : WakeUp(w)
  \/ Signal
  \/ RunEnds

SpecSched == InitSchedSpec /\ [][NextSched]_vars

\* one run_once under each configuration of the execution mode
InitModesSpec == InitStore /\ InitFeed /\ InitRetry /\ InitModes /\ InitWrite /\
  InitThreads /\ InitCk /\ InitDiff /\ InitSink /\ InitHec /\ InitMoreButMode

SpecModes == InitModesSpec /\ [][NextSched]_vars

\* ---- the store on a disk that fails
InitDiskSpec == InitDisk /\ InitFeed /\ InitRetry /\ InitIdleSched /\ InitWrite /\
  InitThreads /\ InitCk /\ InitDiff /\ InitSink /\ InitHec /\ InitMoreButDisk

NextDisk ==
  \/ DiskLookup(CkKey)
  \/ \E ts \in Upds, ok \in BOOLEAN : DiskSetLastTimestamp(CkKey, ts, ok)
  \/ \E id \in DiskIds, ok \in BOOLEAN : DiskAddProcessedId(CkKey, id, ok)
  \/ \E ok \in BOOLEAN : DiskFlushAll(ok)
  \/ DiskTick
  \/ DiskNewInstance

SpecDisk == InitDiskSpec /\ [][NextDisk]_vars

\* ---- two processes on the lock file
InitLockSpec == InitStore /\ InitFeed /\ InitRetry /\ InitIdleSched /\ InitWrite /\
  InitThreads /\ InitCk /\ InitDiff /\ InitSink /\ InitHec /\ InitMore

NextLock ==
  \/ \E p \in Procs : AcquireCheck(p)
  \/ \E p \in Procs : AcquireRemove(p)
  \/ \E p \in Procs : AcquireCreate(p)
  \/ \E p \in Procs : Release(p)
  \/ LockTick

SpecLock == InitLockSpec /\ [][NextLock]_vars

\* ---- the compliance feed, run after run
InitCompSpec == InitStore /\ InitFeed /\ InitRetry /\ InitIdleSched /\ InitWrite /\
  InitThreads /\ InitCk /\ InitDiff /\ InitSink /\ InitHec /\ InitComp /\
  InitMoreButComp

NextComp ==
  \/ CompStart
  \/ \E details_ok \in BOOLEAN : CompScan(details_ok)
  \/ CompFinish

SpecComp == InitCompSpec /\ [][NextComp]_vars

\* ---- the process from main to its exit
InitProcSpec == InitStore /\ InitFeed /\ InitRetry /\ InitIdleSched /\ InitWrite /\
  InitThreads /\ InitCk /\ InitDiff /\ InitSink /\ InitHec /\ InitProc /\
  InitMoreButProc

ProcStep ==
  \/ MainStarts
  \/ DaemonLoopTop
  \/ RunFeed
  \/ \E ending \in RunEndings : RunOnceEnds(ending)
  \/ WaitEnds
  \/ \E ck_ok, sink_ok \in BOOLEAN : GracefulShutdown(ck_ok, sink_ok)

NextProc == ProcStep \/ ProcSignal

\* every statement of the process ends: a feed that runs, a wait, a flush
SpecProc == InitProcSpec /\ [][NextProc]_vars /\ WF_vars(ProcStep)

\* _atomic_write, call after call
InitWriteSpec == InitStore /\ InitFeed /\ InitRetry /\ InitIdleSched /\ InitWrite /\
  InitThreads /\ InitCk /\ InitDiff /\ InitSink /\ InitHec /\ InitMore

NextWrite ==
  \/ OpenTemp
  \/ DumpChunk
  \/ MoveTemp
  \/ WriteFails
  \/ Crash
  \/ StartAgain

SpecWrite == InitWriteSpec /\ [][NextWrite]_vars

\* the threads of one grouped run on the store
InitStoreSpec == InitStore /\ InitFeed /\ InitRetry /\ InitIdleSched /\
  InitWrite /\ InitThreads /\ InitCk /\ InitDiff /\ InitSink /\ InitHec /\ InitMore

NextStore ==
  \/ \E th \in Threads : MarkProcessed(th)
  \/ \E th \in Threads : FeedFlushAll(th)
  \/ \E th \in Threads : FlushCopy(th)
  \/ \E th \in Threads : FlushAssign(th)
  \/ \E th \in Threads : FlushWrite(th)
  \/ \E th \in Threads : FlushDiscard(th)
  \/ LastFlushAll

SpecStore == InitStoreSpec /\ [][NextStore]_vars

\* ---- the calls on one FileCheckpoint
InitCkSpec == InitStore /\ InitFeed /\ InitRetry /\ InitIdleSched /\ InitWrite /\
  InitThreads /\ InitCk /\ InitDiff /\ InitSink /\ InitHec /\ InitMore

NextCk ==
  \/ \E ts \in Upds : CallSetLastTimestamp(CkKey, ts)
  \/ \E id \in StoreIds : CallAddProcessedId(CkKey, id)
  \/ CallFlush(CkKey)
  \/ CallFlushAll
  \/ ClockTick
  \/ StartNewInstance

SpecCk == InitCkSpec /\ [][NextCk]_vars

\* ---- the calls on one FileCheckpoint, ids added one by one and in batches
NextBatch ==
  \/ \E id \in BatchIds : CallAddProcessedId(CkKey, id)
  \/ \E ids \in Batches : CallAddProcessedIdsBatch(CkKey, ids)
  \/ CallFlush(CkKey)
  \/ ClockTick
  \/ StartNewInstance

SpecBatch == InitCkSpec /\ [][NextBatch]_vars

\* ---- the calls on one FileCheckpoint, clear_checkpoint among them
NextClear ==
  \/ \E ts \in Upds : CallSetLastTimestamp(CkKey, ts)
  \/ \E id \in BatchIds : CallAddProcessedId(CkKey, id)
  \/ CallFlush(CkKey)
  \/ CallClearCheckpoint(CkKey)
  \/ ClockTick

SpecClear == InitCkSpec /\ [][NextClear]_vars

\* ---- the deletion scans behind their gate
NextGate ==
  \/ \E current \in SUBSET GateIds, export_ok \in BOOLEAN :
       \E markOrder \in Orders(current) :
         GateProcess(current, markOrder, export_ok)
  \/ GateFlushAll
  \/ GateRestart
  \/ GateTick

SpecGate == InitCkSpec /\ [][NextGate]_vars

\* ---- the deletion scans
InitDiffSpec == InitStore /\ InitFeed /\ InitRetry /\ InitIdleSched /\ InitWrite /\
  InitThreads /\ InitCk /\ InitDiff /\ InitSink /\ InitHec /\ InitMore

NextDiff ==
  \/ \E current \in SUBSET AssetIds :
       \E sendOrder \in UNION {Orders(S) : S \in SUBSET AssetIds},
          markOrder \in Orders(current) :
         DiffRun(current, sendOrder, markOrder)
  \/ DiffFlushAll
  \/ DiffClockTick

SpecDiff == InitDiffSpec /\ [][NextDiff]_vars

\* ---- the threads on the sink
InitSinkSpec == InitStore /\ InitFeed /\ InitRetry /\ InitIdleSched /\ InitWrite /\
  InitThreads /\ InitCk /\ InitDiff /\ InitSink /\ InitHec /\ InitMore

NextSink ==
  \/ \E w \in Threads, n \in 1..CallLen : CallSendBatch(w, n)
  \/ \E w \in Threads : CallSinkFlush(w)
  \/ \E w \in Threads : AcquireLock(w)
  \/ \E w \in Threads, dumps \in BOOLEAN, ends \in FlushEnds : AddToBatch(w, dumps, ends)
  \/ \E w \in Threads, ends \in FlushEnds : FlushAndRelease(w, ends)

SpecSink == InitSinkSpec /\ [][NextSink]_vars

\* ---- flushBatch
InitHecSpec == InitStore /\ InitFeed /\ InitRetry /\ InitIdleSched /\ InitWrite /\
  InitThreads /\ InitCk /\ InitDiff /\ InitSink /\ InitHec /\ InitMore

NextHec ==
  \/ \E n \in 1..MaxBatchBytes : FillBatch(n)
  \/ EnterFlushBatch
  \/ \E r \in PostEnds : PostBatch(r)

SpecHec == InitHecSpec /\ [][NextHec]_vars

\* ---- the adaptive rate limiting
InitPaceSpec == InitStore /\ InitFeed /\ InitRetry /\ InitIdleSched /\ InitWrite /\
  InitThreads /\ InitCk /\ InitDiff /\ InitSink /\ InitHec /\ InitPace /\
  InitMoreButPace

NextPace ==
  \/ PaceSuccess
  \/ \E sig \in Signals : PaceRetry(sig)
  \/ \E sig \in Signals : PaceOther(sig)

SpecPace == InitPaceSpec /\ [][NextPace]_vars

(***************************************************************************)
(* Properties of flush_events (SpecFlush)                                  *)
(***************************************************************************)
\* the POST of the last flush ended in total failure
PostFailed == lastFlush.post \in {"rejected", "exhausted", "exception"}

\* C1: an id is marked processed only if the batch carrying it was
\* acknowledged by the collector: when the POST of a flush ends in total
\* failure (non-retryable status, retries exhausted or exception), none of
\* the batch's ids is marked processed.
MarkedOnlyIfAcknowledged == PostFailed => lastFlush.marked = {}

\* the ids of the first n buffered items
FirstIds(events, n) == {events[i] : i \in 1..n} \ {NoId}
\* the ids of the items after the first n
OtherIds(events, n) == {events[i] : i \in (n + 1)..Len(events)} \ {NoId}

\* the sink reported n of m events, 0 < n < m
PartialFlush ==
  /\ 0 < lastFlush.success
  /\ lastFlush.success < Len(lastFlush.events)

\* C8: when the sink reports n acknowledged out of m buffered events
\* (0 < n < m), flush_events marks exactly the ids of the first n buffered
\* items as processed; the ids of the other m - n items stay not processed.
PartialFlushMarksFirstN ==
  PartialFlush =>
    /\ lastFlush.marked = FirstIds(lastFlush.events, lastFlush.success)
    /\ \A id \in OtherIds(lastFlush.events, lastFlush.success) \
                   FirstIds(lastFlush.events, lastFlush.success) :
         ~IsProcessed(Store, AssetKey, id, now)

\* C30: after flush_events returns, whatever the outcome (all events
\* taken, some, none, or an exception from the sink), the event buffer and
\* the id buffer are both empty: a failed batch is not kept for a retry.
BuffersEmptyAfterFlush ==
  lastFlush # NoFlush => (event_buffer = <<>> /\ buffer_ids = <<>>)

\* a flush of a batch with an id of which the sink took nothing has returned
FailedBatchFlushed ==
  /\ lastFlush.success = 0
  /\ \E i \in DOMAIN lastFlush.events : lastFlush.events[i] # NoId

(***************************************************************************)
(* Properties of the feed over its runs (SpecFeed)                         *)
(***************************************************************************)
\* C2: no item is lost by a failed delivery: when a flush of a run did not
\* deliver some buffered items, the cursor the run leaves for the next run
\* does not make the since filter exclude them.
CursorKeepsUndelivered ==
  (pc = "idle" /\ lostUpd # None) =>
    SinceAdmits(GetLastTimestamp(Store, AssetKey), lostUpd)

\* C3: an item already acknowledged is never delivered again: once its batch
\* was acknowledged and its id marked processed, a later occurrence of the id
\* in the feed's pull, in the same run or a later one and within the
\* retention window and the id cap, is dropped before buffering.
NeverRedelivered == lastPull.gate # "redelivered"

\* the dedup gate dropped an item whose id was acknowledged earlier
DroppedAcknowledged ==
  /\ lastPull.gate = "dropped"
  /\ lastPull.id # NoId
  /\ ackedAt[lastPull.id] # None

\* C28: when an error is raised inside a feed's processing, here the export
\* failing after events were buffered, the result the feed reports for the
\* run (what process() returns and _process_feed passes on) is zero events.
\* The step is the one that ends a run with its buffer left as it was.
ErrorGivesZeroEvents ==
  [][(pc = "fetching" /\ pc' = "idle" /\ event_buffer' # <<>>) =>
       event_count' = 0]_vars

(***************************************************************************)
(* Properties of _safe_export_with_retry (SpecRetry)                       *)
(***************************************************************************)
\* no item occurs twice in a sequence
NoDuplicates(seq) == \A i, j \in 1..Len(seq) : seq[i] = seq[j] => i = j

\* C4: no mid-export retry: once the current attempt has yielded at least
\* one item, the next error of the export (a busy signal included) is
\* raised to the caller at once and export_func is not invoked again, so no
\* item is yielded twice.
NoMidExportRetry ==
  [][/\ export_started =>
          /\ rpc' \in {"iterating", "returned", "raised"}
          /\ calls' = calls
          /\ slept' = slept
     /\ NoDuplicates(yielded')]_vars

\* a busy signal after the first item of a retried export was raised
BusyAfterYieldRaised ==
  /\ rpc = "raised"
  /\ export_started
  /\ IsBusySignal(lastError)
  /\ attempt > 0
  /\ attempt < MaxRetries
  /\ yielded # <<>>

\* the export raised in this step
ExportRaised == rpc = "iterating" /\ rpc' \in {"attempt", "raised"}

\* C11: when the export fails with a busy signal (429, duplicate export,
\* export already running) before any item was yielded, the wrapper waits
\* and invokes the factory again, at most max_retries times (max_retries + 1
\* invocations in all); when the last attempt fails with the busy signal
\* too, the error is propagated to the caller.
BusyRetryBounded ==
  [][/\ calls' <= MaxRetries + 1
     /\ Len(slept') <= MaxRetries
     /\ (ExportRaised /\ ~export_started /\
           lastError' \in {"429", "duplicate export", "export already running"})
          => IF attempt < MaxRetries
             THEN /\ rpc' = "attempt"
                  /\ slept' = Append(slept, wait_time)
                  /\ attempt' = attempt + 1
             ELSE /\ rpc' = "raised"
                  /\ slept' = slept
     /\ (rpc = "attempt" /\ rpc' = "iterating") => calls' = attempt + 1]_vars

\* every attempt failed with a busy signal before its first item, and the
\* last one was propagated
BusyRetriesExhausted ==
  /\ rpc = "raised"
  /\ IsBusySignal(lastError)
  /\ ~export_started
  /\ attempt = MaxRetries
  /\ calls = MaxRetries + 1
  /\ Len(slept) = MaxRetries
  /\ yielded = <<>>

\* C12: an error of the export outside the busy-signal class is propagated
\* at once, with no wait and no further invocation of the factory, whether
\* or not an item had been yielded.
OtherErrorPropagates ==
  [][(ExportRaised /\ lastError' = "other") =>
       /\ rpc' = "raised"
       /\ slept' = slept
       /\ calls' = calls
       /\ yielded' = yielded]_vars

\* an error outside the busy-signal class was propagated before the first
\* item of an attempt that could still have been retried
OtherErrorBeforeFirstItem ==
  /\ rpc = "raised"
  /\ lastError = "other"
  /\ ~export_started
  /\ attempt < MaxRetries

(***************************************************************************)
(* Properties of the calls on one FileCheckpoint (SpecCk)                  *)
(***************************************************************************)
\* the index of the caller's key as the calls see it, and as the file has it
CkIndex == LoadCheckpoint(Store, CkKey).cache[CkKey].data.id_tracking
CkFileIndex == files[CkKey].data.id_tracking

\* C13: when set_last_timestamp(key, t) returns, the key's file holds
\* last_timestamp = t, get_last_timestamp(key) returns t, and so does a new
\* FileCheckpoint made on the same directory.
CursorPersistsAtOnce ==
  [][\A ts \in Upds :
       CallSetLastTimestamp(CkKey, ts) =>
         /\ files'[CkKey].exists
         /\ files'[CkKey].data.last_timestamp = ts
         /\ GetLastTimestamp(Store', CkKey) = ts
         /\ GetLastTimestamp(NewInstance(Store'), CkKey) = ts]_vars

\* a cursor set after ids were marked is in the file with them
CursorOnDisk ==
  /\ files[CkKey].exists
  /\ files[CkKey].data.last_timestamp = 2
  /\ GetLastTimestamp(NewInstance(Store), CkKey) = 2
  /\ IdsOf(CkFileIndex) # {}
  /\ CkKey \notin dirty_keys

\* the ids marked for the key inside the retention window
RecentlyMarked ==
  {id \in StoreIds : /\ markedAt[CkKey][id] # None
                     /\ markedAt[CkKey][id] > now - Retention}

\* an index holds each id once
OneEntryEach(idt) ==
  \A i, j \in 1..Len(idt) : idt[i].id = idt[j].id => i = j

\* the ids marked for the key in the current second
JustMarked == {id \in StoreIds : markedAt[CkKey][id] = now}

\* C14: an id add_processed_id was called for is reported processed by
\* is_processed, before and after a flush, and the index and the file hold
\* it once however often it was marked.
MarkedIsProcessed ==
  /\ \A id \in JustMarked : IsProcessed(Store, CkKey, id, now)
  /\ OneEntryEach(CkIndex)
  /\ OneEntryEach(CkFileIndex)

\* the ids ever marked for the key
EverMarked == {id \in StoreIds : markedAt[CkKey][id] # None}

\* more than max_ids ids were marked, each at a time of its own inside the
\* retention window, and the key was flushed since
MarkedAtIncreasingTimes ==
  /\ Cardinality(EverMarked) > MaxIds
  /\ EverMarked = RecentlyMarked
  /\ \A a, b \in EverMarked : markedAt[CkKey][a] = markedAt[CkKey][b] => a = b
  /\ CkKey \notin dirty_keys
  /\ cache[CkKey].loaded

\* C15: after more than max_ids ids were marked at increasing times and the
\* key was flushed, is_processed is true for exactly the max_ids ids marked
\* last.
EvictionKeepsMostRecent ==
  MarkedAtIncreasingTimes =>
    \A id \in EverMarked :
      IsProcessed(Store, CkKey, id, now) <=>
        Cardinality({o \in EverMarked :
                       markedAt[CkKey][o] > markedAt[CkKey][id]}) < MaxIds

\* three ids marked at three times, the first of them evicted by the flush
OldestEvicted ==
  /\ MarkedAtIncreasingTimes
  /\ Cardinality({id \in EverMarked : IsProcessed(Store, CkKey, id, now)}) = MaxIds
  /\ Len(CkFileIndex) = MaxIds

\* the positions of an index whose time is at or before the cutoff
Expired(idt) == {i \in 1..Len(idt) : idt[i].ts <= now - Retention}

\* C16: an id whose time is not after the cutoff is not reported by
\* is_processed nor by get_processed_ids while it is in the index, and a
\* flush of the key leaves no such id in the index or in the file.
ExpiredNotReported ==
  [][/\ \A i \in Expired(CkIndex) :
          /\ ~IsProcessed(Store, CkKey, CkIndex[i].id, now)
          /\ CkIndex[i].id \notin GetProcessedIds(Store, CkKey, now)
     /\ (CallFlush(CkKey) /\ cache[CkKey].loaded) =>
          /\ Expired(cache[CkKey].data.id_tracking)' = {}
          /\ Expired(CkFileIndex)' = {}]_vars

\* an expired id is in the index and in the file
ExpiredStillIndexed ==
  /\ cache[CkKey].loaded
  /\ Expired(cache[CkKey].data.id_tracking) # {}
  /\ Expired(CkFileIndex) # {}
  /\ RecentlyMarked # {}

(***************************************************************************)
(* Properties of the batches of ids (SpecBatch)                            *)
(***************************************************************************)
\* id_tracking of the caller's key, in the cache and in the file
CachedIds == cache[CkKey].data.id_tracking
FiledIds == IF files[CkKey].exists THEN files[CkKey].data.id_tracking ELSE <<>>

\* C36: add_processed_ids_batch gives the ids of a batch strictly
\* increasing observation times in their given order, also within one
\* second of the clock, so that the size cap keeps the ids added last: of
\* two ids of a batch that stay tracked, the later has the larger time, and
\* the last id of a batch stays tracked.
BatchTimesIncrease ==
  [][(batches' # batches /\ last_batch' # <<>>) =>
       LET ids == last_batch'
       IN /\ \A i, j \in DOMAIN ids :
               ( /\ i < j
                 /\ ids[i] \in IdsOf(CachedIds')
                 /\ ids[j] \in IdsOf(CachedIds') ) =>
                 TsOf(CachedIds', ids[i]) < TsOf(CachedIds', ids[j])
          /\ (MaxIds > 0 /\ Retention > 0) =>
               ids[Len(ids)] \in IdsOf(CachedIds')]_vars

\* the ids tracked in the cache that the file does not hold as they are
Unpersisted ==
  {id \in IdsOf(CachedIds) : TsOf(FiledIds, id) # TsOf(CachedIds, id)}

ClearedKeyHasNoData ==
  /\ [][(cache[CkKey].loaded /\ files[CkKey].exists /\ ~files'[CkKey].exists) =>
          /\ \A id \in StoreIds : ~IsProcessed(Store', CkKey, id, now')
          /\ GetLastTimestamp(Store', CkKey) = None]_vars
  /\ [](\A id \in IdsOf(FiledIds) : markedAt[CkKey][id] # None)

(***************************************************************************)
(* Properties of the scan-interval gate (SpecGate)                         *)
(***************************************************************************)
\* the last two calls of process() lie within the scan interval
TwoCallsWithinInterval ==
  /\ prev_scan.called
  /\ last_scan.called
  /\ last_scan.at - prev_scan.at < ScanInterval

\* the last call did not call the upstream, returned zero events and left
\* the stored id set as it was
LastCallSkipped ==
  /\ ~last_scan.enumerated
  /\ last_scan.events = 0
  /\ ~last_scan.changed

SentFor(id) == Cardinality({i \in 1..Len(lastDiff.sent) : lastDiff.sent[i] = id})

\* C17: a scan sends exactly one deletion event for each id that was stored
\* and is not in the export, none for any other id, and leaves the stored
\* id set equal to the ids of the export.
SnapshotDiffReplacesStoredSet ==
  lastDiff.ran =>
    /\ \A id \in AssetIds :
         SentFor(id) = IF id \in lastDiff.previous \ lastDiff.current
                       THEN 1 ELSE 0
    /\ lastDiff.stored = lastDiff.current

(***************************************************************************)
(* Properties of the threads on the sink (SpecSink)                        *)
(***************************************************************************)
\* the events of a sequence come from one call
OneCall(evs) == \A i, j \in 1..Len(evs) : evs[i] = evs[j]

\* C18: at most one thread is inside send_batch's or flush's locked part,
\* the batch holds events of the lock holder's call only, and every POST
\* body consists of events of one send_batch call.
SinkMutualExclusion ==
  /\ Cardinality({w \in Threads : spc[w] = "locked"}) <= 1
  /\ \A w \in Threads : spc[w] = "locked" => hec_lock = w
  /\ \A i \in 1..Len(batchEvents) :
       /\ batchEvents[i].w = hec_lock
       /\ batchEvents[i].call = send_calls[hec_lock]
  /\ OneCall(lastBody)

\* a thread is adding to the batch while the other, whose events were posted
\* last, waits for the lock with a new call
WaitsForTheLock ==
  \E w, o \in Threads :
    /\ w # o
    /\ spc[w] = "locked" /\ batchEvents # <<>> /\ to_send[w] # <<>>
    /\ spc[o] = "waiting" /\ to_send[o] # <<>>
    /\ lastBody # <<>> /\ lastBody[1].w = o

(***************************************************************************)
(* Properties of flushBatch (SpecHec)                                      *)
(***************************************************************************)
\* C19: after a POST, a 2xx status has ended the flush as a success, 429
\* and a 5xx status have it retry (or end for want of attempts), and
\* another 4xx status has ended it as a failure there and then.
StatusClassifiedAsProtocol ==
  (last_status.status \in Statuses /\ fpc \in {"post", "ended"}) =>
    IF last_status.status \in 200..299
    THEN fpc = "ended" /\ flush_result = "success"
    ELSE IF last_status.status = 429 \/ last_status.status \in 500..599
    THEN fpc = "post" \/ flush_result = "exhausted"
    ELSE fpc = "ended" /\ flush_result = "rejected"

SpeedupAfterCleanStreak ==
  /\ [](lastPace.signal \in {"429", "503", "Timeout"} =>
         consecutive_successes = 0)
  /\ [][(SpeedupThreshold > 1 /\ lastPace'.speedup /\ lastPace' # lastPace) =>
          lastPace.signal = "200"]_vars

\* C21: the success that completes a streak of speedup_threshold leaves the
\* delay smaller than before unless it was at the floor, and not below the
\* floor; a 429, a 503 or a timeout leaves it larger than before unless it
\* was at the ceiling, and not above the ceiling.
PacingMovesWithinBounds ==
  /\ lastPace.speedup =>
       /\ batch_delay < lastPace.old_delay \/ lastPace.old_delay = MinBatchDelay
       /\ batch_delay >= MinBatchDelay
  /\ lastPace.signal \in {"429", "503", "Timeout"} =>
       /\ batch_delay > lastPace.old_delay \/ lastPace.old_delay = MaxBatchDelay
       /\ batch_delay <= MaxBatchDelay

(***************************************************************************)
(* Properties of run_once (SpecSched)                                      *)
(***************************************************************************)
Running == {f \in Feeds : feed_status[f] = "running"}

\* C5: in every execution mode and at every moment of run_once, at most one
\* feed of each contention group (assets, vulnerabilities, plugins) is
\* executing its process().
OneFeedPerGroup ==
  \A f1, f2 \in Running : GroupOf(f1) = GroupOf(f2) => f1 = f2

\* two groups run side by side, one of them at its second feed
GroupsSideBySide ==
  \E f1, f2 \in Running :
    /\ GroupOf(f1) # GroupOf(f2)
    /\ \E f3 \in Feeds \ {f1} :
         /\ GroupOf(f3) = GroupOf(f1)
         /\ feed_status[f3] \in {"done", "failed"}

\* C9: an error in one feed never prevents the remaining selected feeds
\* from being run in the same run_once, in every execution mode: a run_once
\* that ends without a shutdown request has run every selected feed.
ErrorsDoNotStopTheRun ==
  (run_state # "running" /\ ~shutdown_event) =>
    /\ run_state = "completed"
    /\ \A f \in Range(feeds_to_process) : feed_status[f] \in {"done", "failed"}

\* a run_once ended in which a feed ran after an earlier feed of its list
\* had failed
RanAfterFailure ==
  /\ run_state = "completed"
  /\ ~shutdown_event
  /\ \E w \in DOMAIN plan : \E i, j \in 1..Len(plan[w]) :
       /\ i < j
       /\ feed_status[plan[w][i]] = "failed"
       /\ feed_status[plan[w][j]] = "done"

\* C10: cooperative cancellation: once the shutdown event is set, no feed
\* starts: a feed that was not running when the event was set is skipped,
\* in fully sequential, grouped-parallel and plain sequential execution.
NoStartAfterShutdown ==
  [][shutdown_event =>
       \A f \in Feeds : feed_status'[f] = "running" => feed_status[f] = "running"]_vars

\* a run_once ended by a shutdown request, with a feed that had run, a
\* feed skipped by _process_feed and a feed never reached
ShutdownSkippedFeeds ==
  /\ run_state = "completed"
  /\ shutdown_event
  /\ \E f \in Feeds : feed_status[f] = "done"
  /\ \E f \in Range(feeds_to_process) : feed_status[f] = "skipped"
  /\ \E f \in Range(feeds_to_process) : feed_status[f] = "pending"

\* C22: with no shutdown requested, run_once(['all']) runs each known feed
\* exactly once in every execution mode: when the run is over every feed
\* has been through its process(), and no feed is started a second time.
AllFeedsRunOnce ==
  /\ [](( /\ run_state # "running"
          /\ ~shutdown_event
          /\ feeds_to_process = AllFeeds ) =>
          \A f \in Feeds : feed_status[f] \in {"done", "failed"})
  /\ [][\A f \in Feeds :
          (feed_status'[f] = "running" /\ feed_status[f] # "running") =>
            feed_status[f] = "pending"]_vars

\* a grouped-parallel run_once(['all']) is over, without a shutdown request
AllFeedsRan ==
  /\ run_state = "completed"
  /\ ~shutdown_event
  /\ feeds_to_process = AllFeeds
  /\ mode = "smart"
  /\ \E f \in Feeds : feed_status[f] = "failed"

(***************************************************************************)
(* Properties of the execution modes (SpecModes)                           *)
(***************************************************************************)
\* C23: with fully-sequential and smart grouping both disabled and a worker
\* count above 1, run_once hands every selected feed to a worker of its
\* own in a pool, so that the feeds run side by side whatever their groups.
FlatConcurrentMode ==
  ( /\ run_state = "running"
    /\ ~fully_sequential
    /\ ~smart_grouping
    /\ max_workers > 1 ) =>
    /\ Len(plan) = Len(feeds_to_process)
    /\ \A i \in DOMAIN plan : plan[i] = <<feeds_to_process[i]>>

\* C33: at no moment of run_once do more feeds run at the same time than
\* the configured worker count (MAX_CONCURRENT_FEEDS), the grouped-parallel
\* mode included.
FeedsWithinWorkerCount == Cardinality(Running) <= max_workers

\* C24: with smart grouping enabled and for every selection, two feeds of
\* one contention group run one after the other with the inter-feed delay
\* between them: when a feed ends and a feed of its group is still to run,
\* the worker sleeps before it goes on (a single selected group included).
DelayWithinGroup ==
  [][\A w \in DOMAIN plan :
       ( /\ smart_grouping
         /\ inter_feed_delay > 0
         /\ wpc[w] = "running"
         /\ wpc'[w] # "running"
         /\ widx[w] < Len(plan[w])
         /\ GroupOf(plan[w][widx[w]]) = GroupOf(plan[w][widx[w] + 1]) ) =>
         wpc'[w] = "sleeping"]_vars

(***************************************************************************)
(* Properties of the store on a disk that fails (SpecDisk)                 *)
(***************************************************************************)
\* C26: loading a checkpoint file that is missing, unreadable or
\* unparsable raises nothing and gives the key the empty default record:
\* no id is processed and get_last_timestamp returns None.
BrokenFileLoadsEmpty ==
  (lastCall.op = "lookup" /\
   lastCall.file \in {"missing", "unreadable", "unparsable"}) =>
    /\ ~lastCall.raised
    /\ cache[lastCall.key] = [loaded |-> TRUE, data |-> DefaultData]
    /\ lastCall.cursor = None
    /\ lastCall.live = {}

\* an unparsable file that held an id and a cursor has been looked up
UnparsableLookedUp ==
  /\ lastCall.op = "lookup"
  /\ lastCall.file = "unparsable"
  /\ files[lastCall.key].exists
  /\ files[lastCall.key].data = OldData

\* C27: a failed checkpoint write inside flush is not raised and leaves the
\* key dirty, the file as it was and the cached cursor and non-expired ids
\* as they were (up to the cap every flush enforces); a flush whose write
\* succeeds, the one after a failure included, persists the cached cursor
\* and ids and clears the dirty mark.
FailedWriteStaysDirty ==
  LET k == lastCall.key
      kept == GetProcessedIds(Store, k, now)
  IN /\ lastCall.write = "failed" =>
          /\ ~lastCall.raised
          /\ k \in dirty_keys
          /\ Cursor(Store, k) = lastCall.cursor
          /\ kept \subseteq lastCall.live
          /\ Cardinality(lastCall.live) <= MaxIds => kept = lastCall.live
     /\ lastCall.write = "done" =>
          /\ k \notin dirty_keys
          /\ files[k] = [exists |-> TRUE, data |-> cache[k].data]
          /\ Cursor(Store, k) = lastCall.cursor
          /\ kept \subseteq lastCall.live
          /\ Cardinality(lastCall.live) <= MaxIds => kept = lastCall.live

\* a flush_all persisted an id and a cursor whose write had just failed
PersistedAfterFailure ==
  /\ lastCall.op = "flush_all"
  /\ lastCall.write = "done"
  /\ lastCall.retry
  /\ lastCall.cursor # None
  /\ lastCall.live # {}
  /\ IdsOf(files[lastCall.key].data.id_tracking) = lastCall.live

(***************************************************************************)
(* Properties of ProcessLock (SpecLock)                                    *)
(***************************************************************************)
\* the processes to which acquire() returned True and that have not released
Holders == {p \in Procs : lpc[p] = "holding"}

\* C29: ProcessLock prevents concurrent executions: as long as no lock file
\* has gone stale, at most one process holds the lock at a time under any
\* interleaving of two acquire() calls, and acquire() returns False to a
\* process that finds a lock file younger than the timeout.
OneLockHolder ==
  ~taken_over => Cardinality(Holders) <= 1

(***************************************************************************)
(* Properties of the compliance feed (SpecComp)                            *)
(***************************************************************************)
\* the largest modification time among the scans of the run
MaxObserved ==
  CHOOSE t \in {scan_list[i].ts : i \in DOMAIN scan_list} :
    \A i \in DOMAIN scan_list : scan_list[i].ts <= t

CompletedScanListed ==
  \E i \in DOMAIN scan_list : scan_list[i].status = "completed"

\* C39: with no cursor stored for the compliance feed, process() takes
\* every completed scan as newer than the cursor and emits its findings
\* instead of failing the feed: a run that began without a cursor and met a
\* completed scan ends without an error.
NoCursorRunSucceeds ==
  (comp_pc = "idle" /\ comp_error # "not run" /\ comp_last = None
     /\ CompletedScanListed)
    => comp_error = "none"

LastSteps ==
  IF Len(steps) < 3 THEN <<>>
  ELSE [i \in 1..3 |-> steps[Len(steps) - 3 + i].step]

\* C25: once a termination signal has set the shutdown event, the process,
\* one-shot or daemon, leaves its loop and exits, and the last things it
\* does before it exits are, in this order, flushing the checkpoints,
\* flushing the sink and logging the final metrics, whether or not a flush
\* fails.
GracefulShutdownOnSignal ==
  /\ shutdown_event ~> (ppc = "exited")
  /\ []((ppc = "exited" /\ shutdown_event) =>
          LastSteps = <<"checkpoints", "sink", "metrics">>)

(***************************************************************************)
(* Properties of _atomic_write (SpecWrite)                                 *)
(***************************************************************************)
\* C7: checkpoint writes are atomic: at every point of _atomic_write, a
\* crash or an error between the writing of the temp file and the rename
\* included, the target file is either absent or holds the complete content
\* of the last completed write; it is never truncated or partly written.
TargetAbsentOrComplete ==
  \/ ~disk["filepath"].exists /\ completed = None
  \/ IsComplete(disk["filepath"]) /\ disk["filepath"].data = completed

\* the process was killed while a later write had written part of other
\* data to its temp file
CrashedMidWrite ==
  /\ wstep = "crashed"
  /\ completed # None
  /\ disk["temp_path"].exists
  /\ ~IsComplete(disk["temp_path"])
  /\ disk["temp_path"].data # completed

(***************************************************************************)
(* Properties of the store under two threads (SpecStore)                   *)
(***************************************************************************)
\* the ids the checkpoint file of a key holds
Persisted(k) == IF files[k].exists THEN IdsOf(files[k].data.id_tracking) ELSE {}

\* C6: the checkpoint store tolerates concurrent workers that own different
\* keys: whatever the interleaving, a flush started by one worker (its
\* flush_all over every dirty key included) never makes an id that another
\* worker marked_ids processed for its own key stop being reported processed,
\* and that id is persisted by the end of the run.
MarkedStaysProcessed ==
  \A th \in Threads : \A id \in marked_ids[th] :
    /\ IsProcessed(Store, KeyOf(th), id, now)
    /\ run_ended => StrId(id) \in Persisted(KeyOf(th))

====
